---- MODULE Spec2Model ----
(***************************************************************************)
(* Symbol path resolver of a2ltool (src/src/symbol.rs) as a state machine. *)
(*                                                                         *)
(* Text is modelled as a sequence of one-character strings, so that the    *)
(* parsing functions (get_additional_spec, split_symbol_components,        *)
(* get_index) are computed character by character as the code does.        *)
(* Addresses, offsets and indices are small naturals: the model's values   *)
(* stay far below 2^64, so u64/usize overflow is not part of the model.    *)
(***************************************************************************)
EXTENDS Integers, Sequences, FiniteSets, TLC

(***************************************************************************)
(* Text helpers: the std::str operations the resolver uses.                *)
(***************************************************************************)

\* str::find(char): position (1-based) of the first occurrence, 0 if none
RECURSIVE FindFrom(_, _, _)
FindFrom(s, ch, i) ==
    IF i > Len(s) THEN 0
    ELSE IF s[i] = ch THEN i
    ELSE FindFrom(s, ch, i + 1)

FindChar(s, ch) == FindFrom(s, ch, 1)

\* str::starts_with(&str)
StartsWith(s, p) ==
    /\ Len(s) >= Len(p)
    /\ SubSeq(s, 1, Len(p)) = p

\* str::ends_with(&str)
EndsWith(s, p) ==
    /\ Len(s) >= Len(p)
    /\ SubSeq(s, Len(s) - Len(p) + 1, Len(s)) = p

\* the remainder after a prefix that is known to be there (strip_prefix)
StripPrefix(s, p) == SubSeq(s, Len(p) + 1, Len(s))

\* str::split(char): the pieces between the separators, empty pieces kept
RECURSIVE SplitChar(_, _)
SplitChar(s, ch) ==
    LET pos == FindChar(s, ch)
    IN  IF pos = 0 THEN <<s>>
        ELSE <<SubSeq(s, 1, pos - 1)>> \o SplitChar(SubSeq(s, pos + 1, Len(s)), ch)

\* position of the first occurrence of the two-character pattern "}{", 0 if none
RECURSIVE FindGroupSep(_, _)
FindGroupSep(s, i) ==
    IF i + 1 > Len(s) THEN 0
    ELSE IF s[i] = "}" /\ s[i + 1] = "{" THEN i
    ELSE FindGroupSep(s, i + 1)

\* str::split("}{")
RECURSIVE SplitGroups(_)
SplitGroups(s) ==
    LET pos == FindGroupSep(s, 1)
    IN  IF pos = 0 THEN <<s>>
        ELSE <<SubSeq(s, 1, pos - 1)>> \o SplitGroups(SubSeq(s, pos + 2, Len(s)))

\* str::split_inclusive(char): each piece keeps its terminator; no empty last piece
RECURSIVE SplitInclusive(_, _)
SplitInclusive(s, ch) ==
    IF Len(s) = 0 THEN << >>
    ELSE LET pos == FindChar(s, ch)
         IN  IF pos = 0 THEN <<s>>
             ELSE <<SubSeq(s, 1, pos)>> \o SplitInclusive(SubSeq(s, pos + 1, Len(s)), ch)

\* [&str]::join(".")
RECURSIVE JoinDot(_)
JoinDot(cs) ==
    IF Len(cs) = 0 THEN << >>
    ELSE IF Len(cs) = 1 THEN cs[1]
    ELSE cs[1] \o <<".">> \o JoinDot(Tail(cs))

Digits == <<"0", "1", "2", "3", "4", "5", "6", "7", "8", "9">>

IsDigit(ch) == \E d \in 1..10 : Digits[d] = ch

DigitVal(ch) == (CHOOSE d \in 1..10 : Digits[d] = ch) - 1

RECURSIVE DigitsVal(_, _)
DigitsVal(s, acc) ==
    IF Len(s) = 0 THEN acc
    ELSE DigitsVal(Tail(s), acc * 10 + DigitVal(Head(s)))

None == [some |-> FALSE]

Some(v) == [some |-> TRUE, val |-> v]

\* str::parse::<usize>(): an optional '+' and then one or more decimal digits
ParseUsize(s) ==
    LET body == IF Len(s) > 0 /\ s[1] = "+" THEN Tail(s) ELSE s
    IN  IF Len(body) > 0 /\ \A i \in 1..Len(body) : IsDigit(body[i])
        THEN Some(DigitsVal(body, 0))
        ELSE None

(***************************************************************************)
(* get_additional_spec: split "var{Function:f}{CompileUnit:u_c}{...}" into *)
(* the plain symbol and the AdditionalSpec.                                *)
(***************************************************************************)

FunctionKey == <<"F", "u", "n", "c", "t", "i", "o", "n", ":">>

NamespaceKey == <<"N", "a", "m", "e", "s", "p", "a", "c", "e", ":">>

CompileUnitKey == <<"C", "o", "m", "p", "i", "l", "e", "U", "n", "i", "t", ":">>

\* AdditionalSpec { function_name: None, simple_unit_name: None, namespaces: vec![] }
EmptySpec == [function_name |-> None, simple_unit_name |-> None, namespaces |-> << >>]

\* the loop without its break: the groups after CompileUnit are scanned too
RECURSIVE ScanSpecNoBreak(_, _, _)
ScanSpecNoBreak(parts, i, add_spec) ==
    IF i > Len(parts) THEN add_spec
    ELSE LET component == parts[i]
         IN  IF StartsWith(component, FunctionKey)
             THEN ScanSpecNoBreak(parts, i + 1,
                      [add_spec EXCEPT !.function_name =
                           Some(StripPrefix(component, FunctionKey))])
             ELSE IF StartsWith(component, NamespaceKey)
             THEN ScanSpecNoBreak(parts, i + 1,
                      [add_spec EXCEPT !.namespaces =
                           Append(@, StripPrefix(component, NamespaceKey))])
             ELSE IF StartsWith(component, CompileUnitKey)
             THEN ScanSpecNoBreak(parts, i + 1,
                      [add_spec EXCEPT !.simple_unit_name =
                           Some(StripPrefix(component, CompileUnitKey))])
             ELSE ScanSpecNoBreak(parts, i + 1, add_spec)

\* the loop over spec_str.split("}{"), with its break at the CompileUnit group
RECURSIVE ScanSpec(_, _, _)
ScanSpec(parts, i, add_spec) ==
    IF i > Len(parts) THEN add_spec
    ELSE LET component == parts[i]
         IN  IF StartsWith(component, FunctionKey)
             THEN ScanSpec(parts, i + 1,
                      [add_spec EXCEPT !.function_name =
                           Some(StripPrefix(component, FunctionKey))])
             ELSE IF StartsWith(component, NamespaceKey)
             THEN ScanSpec(parts, i + 1,
                      [add_spec EXCEPT !.namespaces =
                           Append(@, StripPrefix(component, NamespaceKey))])
             ELSE IF StartsWith(component, CompileUnitKey)
             THEN [add_spec EXCEPT !.simple_unit_name =
                       Some(StripPrefix(component, CompileUnitKey))]
             ELSE ScanSpec(parts, i + 1, add_spec)

GetAdditionalSpec(varname_ext) ==
    LET pos == FindChar(varname_ext, "{")
    IN  IF pos = 0
        THEN [base |-> varname_ext, spec |-> None]
        ELSE LET base == SubSeq(varname_ext, 1, pos - 1)
                 spec_str == SubSeq(varname_ext, pos, Len(varname_ext))
                 \* strip_prefix('{') always succeeds here; strip_suffix('}') is
                 \* applied to what is left of it
                 rest == Tail(spec_str)
             IN  IF Len(rest) > 0 /\ rest[Len(rest)] = "}"
                 THEN [base |-> base,
                       spec |-> Some(ScanSpec(SplitGroups(SubSeq(rest, 1, Len(rest) - 1)),
                                              1, EmptySpec))]
                 ELSE [base |-> base, spec |-> None]

(***************************************************************************)
(* split_symbol_components                                                 *)
(***************************************************************************)

\* the index string pushed whole: "array_field[5][6]" -> "array_field", "[5][6]"
SplitOneComponentWhole(component) ==
    LET idx == FindChar(component, "[")
    IN  IF idx = 0 THEN <<component>>
        ELSE <<SubSeq(component, 1, idx - 1), SubSeq(component, idx, Len(component))>>

\* one piece of varname.split('.'): "array_field[5][6]" -> "array_field", "[5]", "[6]"
SplitOneComponent(component) ==
    LET idx == FindChar(component, "[")
    IN  IF idx = 0 THEN <<component>>
        ELSE <<SubSeq(component, 1, idx - 1)>>
                 \o SplitInclusive(SubSeq(component, idx, Len(component)), "]")

RECURSIVE ExtendComponents(_, _)
ExtendComponents(pieces, i) ==
    IF i > Len(pieces) THEN << >>
    ELSE SplitOneComponent(pieces[i]) \o ExtendComponents(pieces, i + 1)

SplitSymbolComponents(varname) == ExtendComponents(SplitChar(varname, "."), 1)

(***************************************************************************)
(* get_index: the numerical index of "_x_" or "[x]".  The slice            *)
(* idxstr[1..len-1] of the one-character string "_" has its start after    *)
(* its end, which panics.                                                  *)
(***************************************************************************)

IdxNone == [tag |-> "none"]

IdxPanic == [tag |-> "panic"]

IdxSome(n) == [tag |-> "some", val |-> n]

\* get_index without the legacy form: only [N] is an index
GetIndexBracketsOnly(idxstr) ==
    IF StartsWith(idxstr, <<"[">>) /\ EndsWith(idxstr, <<"]">>)
    THEN IF Len(idxstr) < 2 THEN IdxPanic
         ELSE LET parsed == ParseUsize(SubSeq(idxstr, 2, Len(idxstr) - 1))
              IN  IF parsed.some THEN IdxSome(parsed.val) ELSE IdxNone
    ELSE IdxNone

GetIndex(idxstr) ==
    IF \/ (StartsWith(idxstr, <<"_">>) /\ EndsWith(idxstr, <<"_">>))
       \/ (StartsWith(idxstr, <<"[">>) /\ EndsWith(idxstr, <<"]">>))
    THEN IF Len(idxstr) < 2 THEN IdxPanic
         ELSE LET parsed == ParseUsize(SubSeq(idxstr, 2, Len(idxstr) - 1))
              IN  IF parsed.some THEN IdxSome(parsed.val) ELSE IdxNone
    ELSE IdxNone

(***************************************************************************)
(* Data model: TypeInfo, VarInfo, DebugData.                               *)
(*   TypeInfo    a record with the variant in kind: a scalar kind          *)
(*               ("Uint8", "Uint16", "Uint32", "Pointer", "Enum",          *)
(*               "Bitfield"), "Array", "Struct", "Union", "Class" or       *)
(*               "TypeRef" (a member type stored as a key of the type map) *)
(*   members, inheritance   IndexMap: a sequence of [name, type, offset]   *)
(*   variables   IndexMap<String, Vec<VarInfo>>: a sequence of             *)
(*               [name, list] in insertion order                           *)
(*   types       HashMap<usize, TypeInfo>: a function on its keys          *)
(*   demangled_names   HashMap<String, String>: a function on its keys     *)
(*   unit_names  Vec<Option<String>>                                       *)
(***************************************************************************)

Scalar(k) == [kind |-> k]

TypeRefT(key) == [kind |-> "TypeRef", key |-> key]

ArrayT(arraytype, dim, size, stride) ==
    [kind |-> "Array", arraytype |-> arraytype, dim |-> dim, size |-> size,
     stride |-> stride]

StructT(members, size) == [kind |-> "Struct", members |-> members, size |-> size]

UnionT(members, size) == [kind |-> "Union", members |-> members, size |-> size]

ClassT(members, inheritance, size) ==
    [kind |-> "Class", members |-> members, inheritance |-> inheritance, size |-> size]

Member(name, type, offset) == [name |-> name, type |-> type, offset |-> offset]

VarInfoT(address, typeref, unit_idx, function, namespaces) ==
    [address |-> address, typeref |-> typeref, unit_idx |-> unit_idx,
     function |-> function, namespaces |-> namespaces]

\* IndexMap::get / HashMap::get on a sequence of entries with a name field
RECURSIVE MapGetFrom(_, _, _)
MapGetFrom(entries, name, i) ==
    IF i > Len(entries) THEN None
    ELSE IF entries[i].name = name THEN Some(entries[i])
    ELSE MapGetFrom(entries, name, i + 1)

MapGet(entries, name) == MapGetFrom(entries, name, 1)

\* TypeInfo::get_reference: a TypeRef is looked up in the type map at use time
GetReference(membertype, types) ==
    IF membertype.kind = "TypeRef" /\ membertype.key \in DOMAIN types
    THEN types[membertype.key]
    ELSE membertype

Letters ==
    {"a", "b", "c", "d", "e", "f", "g", "h", "i", "j", "k", "l", "m", "n", "o", "p",
     "q", "r", "s", "t", "u", "v", "w", "x", "y", "z",
     "A", "B", "C", "D", "E", "F", "G", "H", "I", "J", "K", "L", "M", "N", "O", "P",
     "Q", "R", "S", "T", "U", "V", "W", "X", "Y", "Z"}

IsAlnum(ch) == ch \in Letters \/ IsDigit(ch)

\* make_simple_unit_name: the unit's display name with every non-alphanumeric
\* character replaced by '_'; None for a unit without a display name
MakeSimpleUnitName(debug_data, unit_idx) ==
    IF unit_idx + 1 > Len(debug_data.unit_names) THEN None
    ELSE LET full_name == debug_data.unit_names[unit_idx + 1]
         IN  IF ~full_name.some THEN None
             ELSE Some([i \in 1..Len(full_name.val) |->
                          IF IsAlnum(full_name.val[i]) THEN full_name.val[i] ELSE "_"])

(***************************************************************************)
(* select_varinfo                                                          *)
(***************************************************************************)

\* the condition with the comparison of the function name left out
VarinfoMatchesAnyFunction(vi, additional_spec, debug_data) ==
    LET unit == additional_spec.simple_unit_name
        ns == additional_spec.namespaces
    IN  /\ (~unit.some \/ unit = MakeSimpleUnitName(debug_data, vi.unit_idx))
        /\ ns = vi.namespaces

\* the condition of the for loop's if
VarinfoMatches(vi, additional_spec, debug_data) ==
    LET unit == additional_spec.simple_unit_name
        func == additional_spec.function_name
        ns == additional_spec.namespaces
    IN  /\ (~unit.some \/ unit = MakeSimpleUnitName(debug_data, vi.unit_idx))
        /\ (~func.some \/ func = vi.function)
        /\ ns = vi.namespaces

\* the last element instead of the first
LastVarinfo(varinfo_list) == varinfo_list[Len(varinfo_list)]

\* &varinfo_list[0]: the spec was not matched, or there is none
FirstVarinfo(varinfo_list) == varinfo_list[1]

RECURSIVE SelectFrom(_, _, _, _)
SelectFrom(varinfo_list, additional_spec, debug_data, i) ==
    IF i > Len(varinfo_list) THEN FirstVarinfo(varinfo_list)
    ELSE IF VarinfoMatches(varinfo_list[i], additional_spec, debug_data)
    THEN varinfo_list[i]
    ELSE SelectFrom(varinfo_list, additional_spec, debug_data, i + 1)

SelectVarinfo(varinfo_list, additional_spec, debug_data) ==
    IF additional_spec.some
    THEN SelectFrom(varinfo_list, additional_spec.val, debug_data, 1)
    ELSE FirstVarinfo(varinfo_list)

(***************************************************************************)
(* find_membertype.  A result is Ok(address, typeinfo), Err(message) or a  *)
(* panic; a message keeps the pieces the format string is built from.      *)
(***************************************************************************)

Ok(address, typeinfo) == [tag |-> "Ok", address |-> address, typeinfo |-> typeinfo]

Err(e) == [tag |-> "Err", err |-> e]

Panicked == [tag |-> "Panic"]

\* "There is no member \"{}\" in \"{}\""
NoMemberErr(components, component_index) ==
    Err([kind |-> "NoMember",
         member |-> components[component_index + 1],
         path |-> JoinDot(SubSeq(components, 1, component_index))])

\* "Remaining portion \"{}\" of \"{}\" could not be matched"
RemainingErr(components, component_index) ==
    Err([kind |-> "Remaining",
         rest |-> JoinDot(SubSeq(components, component_index + 1, Len(components))),
         full |-> JoinDot(components)])

\* the bounds error, if it named the variable only
BoundsErrBaseOnly(indexval, components, current_dim) ==
    Err([kind |-> "Bounds", index |-> indexval, full |-> components[1],
         extent |-> current_dim])

\* "requested array index {} in expression \"{}\", but the array only has {} elements"
BoundsErr(indexval, components, current_dim) ==
    Err([kind |-> "Bounds", index |-> indexval, full |-> JoinDot(components),
         extent |-> current_dim])

\* "could not interpret \"{arraycomponent}\" as an array index"
IndexErr(arraycomponent) == Err([kind |-> "UnparsableIndex", component |-> arraycomponent])

\* the second element as the default
DefaultIndexOne == <<"_", "1", "_">>

\* unwrap_or(&"_0_"): the first element if no more components are specified
DefaultIndex == <<"_", "0", "_">>

\* the comparison off by one: the extent itself is let through
OutOfBoundsAboveExtent(indexval, current_dim) == indexval > current_dim

\* indexval >= *current_dim
OutOfBounds(indexval, current_dim) == indexval >= current_dim

\* the indices added up, the extent of the dimension left out
SumMultiIndex(multi_index, current_dim, indexval) == multi_index + indexval

\* multi_index * (*current_dim) as usize + indexval
NextMultiIndex(multi_index, current_dim, indexval) == multi_index * current_dim + indexval

\* the for loop over dim.iter().enumerate(): idx_pos counts from 0; the value is
\* the final multi_index, or the result the loop returns early with
RECURSIVE ArrayLoop(_, _, _, _, _)
ArrayLoop(dim, idx_pos, multi_index, components, component_index) ==
    IF idx_pos >= Len(dim) THEN [tag |-> "index", multi_index |-> multi_index]
    ELSE LET current_dim == dim[idx_pos + 1]
             arraycomponent ==
                 IF component_index + idx_pos < Len(components)
                 THEN components[component_index + idx_pos + 1]
                 ELSE DefaultIndex
             indexval == GetIndex(arraycomponent)
         IN  IF indexval.tag = "panic" THEN Panicked
             ELSE IF indexval.tag = "none" THEN IndexErr(arraycomponent)
             ELSE IF OutOfBounds(indexval.val, current_dim)
             THEN BoundsErr(indexval.val, components, current_dim)
             ELSE ArrayLoop(dim, idx_pos + 1,
                            NextMultiIndex(multi_index, current_dim, indexval.val),
                            components, component_index)

Call(typeinfo, component_index, address) ==
    [tag |-> "Call", typeinfo |-> typeinfo, component_index |-> component_index,
     address |-> address]

\* a leaf arm that returns the leaf whatever remains
LeafArmAccepts(typeinfo, components, component_index, address) == Ok(address, typeinfo)

\* the arm for every other datatype: a leaf
LeafArm(typeinfo, components, component_index, address) ==
    IF component_index >= Len(components) THEN Ok(address, typeinfo)
    ELSE RemainingErr(components, component_index)

\* the match with the '_' after a base class name never skipped
MatchDatatypeNoSkip(typeinfo, debug_data, components, component_index, address) ==
         LET component == components[component_index + 1]
         IN
         CASE typeinfo.kind = "Class" ->
                LET m == MapGet(typeinfo.members, component)
                    b == MapGet(typeinfo.inheritance, component)
                IN  IF m.some
                    THEN Call(GetReference(m.val.type, debug_data.types),
                              component_index + 1, address + m.val.offset)
                    ELSE IF b.some
                    THEN Call(b.val.type, component_index + 1, address + b.val.offset)
                    ELSE NoMemberErr(components, component_index)
           [] typeinfo.kind \in {"Struct", "Union"} ->
                LET m == MapGet(typeinfo.members, component)
                IN  IF m.some
                    THEN Call(GetReference(m.val.type, debug_data.types),
                              component_index + 1, address + m.val.offset)
                    ELSE NoMemberErr(components, component_index)
           [] typeinfo.kind = "Array" ->
                LET loop == ArrayLoop(typeinfo.dim, 0, 0, components, component_index)
                IN  IF loop.tag # "index" THEN loop
                    ELSE Call(typeinfo.arraytype, component_index + Len(typeinfo.dim),
                              address + loop.multi_index * typeinfo.stride)
           [] OTHER -> LeafArm(typeinfo, components, component_index, address)

\* the match with the member's offset forgotten in the Struct and Union arm
MatchDatatypeNoOffset(typeinfo, debug_data, components, component_index, address) ==
         LET component == components[component_index + 1]
         IN
         CASE typeinfo.kind = "Class" ->
                LET m == MapGet(typeinfo.members, component)
                    b == MapGet(typeinfo.inheritance, component)
                IN  IF m.some
                    THEN Call(GetReference(m.val.type, debug_data.types),
                              component_index + 1, address + m.val.offset)
                    ELSE IF b.some
                    THEN LET skip == IF /\ Len(components) > component_index + 1
                                        /\ components[component_index + 2] = <<"_">>
                                     THEN 1 ELSE 0
                         IN  Call(b.val.type, component_index + 1 + skip,
                                  address + b.val.offset)
                    ELSE NoMemberErr(components, component_index)
           [] typeinfo.kind \in {"Struct", "Union"} ->
                LET m == MapGet(typeinfo.members, component)
                IN  IF m.some
                    THEN Call(GetReference(m.val.type, debug_data.types),
                              component_index + 1, address)
                    ELSE NoMemberErr(components, component_index)
           [] typeinfo.kind = "Array" ->
                LET loop == ArrayLoop(typeinfo.dim, 0, 0, components, component_index)
                IN  IF loop.tag # "index" THEN loop
                    ELSE Call(typeinfo.arraytype, component_index + Len(typeinfo.dim),
                              address + loop.multi_index * typeinfo.stride)
           [] OTHER -> LeafArm(typeinfo, components, component_index, address)

\* the match with a member step that stays at its component
MatchDatatypeStaying(typeinfo, debug_data, components, component_index, address) ==
         LET component == components[component_index + 1]
         IN
         CASE typeinfo.kind = "Class" ->
                LET m == MapGet(typeinfo.members, component)
                    b == MapGet(typeinfo.inheritance, component)
                IN  IF m.some
                    THEN Call(GetReference(m.val.type, debug_data.types),
                              component_index, address + m.val.offset)
                    ELSE IF b.some
                    THEN LET skip == IF /\ Len(components) > component_index + 1
                                        /\ components[component_index + 2] = <<"_">>
                                     THEN 1 ELSE 0
                         IN  Call(b.val.type, component_index + 1 + skip,
                                  address + b.val.offset)
                    ELSE NoMemberErr(components, component_index)
           [] typeinfo.kind \in {"Struct", "Union"} ->
                LET m == MapGet(typeinfo.members, component)
                IN  IF m.some
                    THEN Call(GetReference(m.val.type, debug_data.types),
                              component_index, address + m.val.offset)
                    ELSE NoMemberErr(components, component_index)
           [] typeinfo.kind = "Array" ->
                LET loop == ArrayLoop(typeinfo.dim, 0, 0, components, component_index)
                IN  IF loop.tag # "index" THEN loop
                    ELSE Call(typeinfo.arraytype, component_index + Len(typeinfo.dim),
                              address + loop.multi_index * typeinfo.stride)
           [] OTHER -> LeafArm(typeinfo, components, component_index, address)

\* The match on typeinfo.datatype, entered with a component left.
\* component_index counts from 0 as in the code: components[component_index]
\* is the model's components[component_index + 1].
MatchDatatype(typeinfo, debug_data, components, component_index, address) ==
         LET component == components[component_index + 1]
         IN
         CASE typeinfo.kind = "Class" ->
                LET m == MapGet(typeinfo.members, component)
                    b == MapGet(typeinfo.inheritance, component)
                IN  IF m.some
                    THEN Call(GetReference(m.val.type, debug_data.types),
                              component_index + 1, address + m.val.offset)
                    ELSE IF b.some
                    THEN LET skip == IF /\ Len(components) > component_index + 1
                                        /\ components[component_index + 2] = <<"_">>
                                     THEN 1 ELSE 0
                         IN  Call(b.val.type, component_index + 1 + skip,
                                  address + b.val.offset)
                    ELSE NoMemberErr(components, component_index)
           [] typeinfo.kind \in {"Struct", "Union"} ->
                LET m == MapGet(typeinfo.members, component)
                IN  IF m.some
                    THEN Call(GetReference(m.val.type, debug_data.types),
                              component_index + 1, address + m.val.offset)
                    ELSE NoMemberErr(components, component_index)
           [] typeinfo.kind = "Array" ->
                LET loop == ArrayLoop(typeinfo.dim, 0, 0, components, component_index)
                IN  IF loop.tag # "index" THEN loop
                    ELSE Call(typeinfo.arraytype, component_index + Len(typeinfo.dim),
                              address + loop.multi_index * typeinfo.stride)
           [] OTHER -> LeafArm(typeinfo, components, component_index, address)

\* find_membertype that at the end of the components goes on to the first
\* element of an array
MemberStepFirstElement(typeinfo, debug_data, components, component_index, address) ==
    IF component_index >= Len(components)
    THEN IF typeinfo.kind = "Array" THEN Ok(address, typeinfo.arraytype)
         ELSE Ok(address, typeinfo)
    ELSE MatchDatatype(typeinfo, debug_data, components, component_index, address)

\* One invocation of find_membertype: its result, or the recursive call it ends
\* with.
MemberStep(typeinfo, debug_data, components, component_index, address) ==
    IF component_index >= Len(components) THEN Ok(address, typeinfo)
    ELSE MatchDatatype(typeinfo, debug_data, components, component_index, address)

RECURSIVE FindMembertype(_, _, _, _, _)
FindMembertype(typeinfo, debug_data, components, component_index, address) ==
    LET step == MemberStep(typeinfo, debug_data, components, component_index, address)
    IN  IF step.tag = "Call"
        THEN FindMembertype(step.typeinfo, debug_data, components, step.component_index,
                            step.address)
        ELSE step

(***************************************************************************)
(* find_symbol_from_components and find_symbol                             *)
(***************************************************************************)

SymbolInfo(name, address, typeinfo, unit_idx, function_name, namespaces, is_unique) ==
    [tag |-> "Ok", name |-> name, address |-> address, typeinfo |-> typeinfo,
     unit_idx |-> unit_idx, function_name |-> function_name,
     namespaces |-> namespaces, is_unique |-> is_unique]

\* "Symbol \"{}\" does not exist"
NotExistErr(components) == Err([kind |-> "NotExist", symbol |-> components[1]])

\* the TypeInfo the code makes up for a variable whose typeref is not in the map
PlaceholderType == Scalar("Uint8")

\* The part of find_symbol_from_components before the descent: the lookup of
\* components[0], select_varinfo and the lookup of the variable's type.  The
\* value is the function's result, or the descent it starts.
LookupVar(components, additional_spec, debug_data) ==
    LET entry == MapGet(debug_data.variables, components[1])
    IN  IF ~entry.some THEN NotExistErr(components)
        ELSE LET varinfo_list == entry.val.list
                 varinfo == SelectVarinfo(varinfo_list, additional_spec, debug_data)
                 is_unique == (Len(varinfo_list) = 1)
             IN  IF varinfo.typeref \in DOMAIN debug_data.types
                 THEN [tag |-> "Descend", varinfo |-> varinfo, is_unique |-> is_unique,
                       typeinfo |-> debug_data.types[varinfo.typeref]]
                 ELSE IF Len(components) = 1
                 THEN SymbolInfo(<< >>, varinfo.address, PlaceholderType,
                                 varinfo.unit_idx, None, varinfo.namespaces, is_unique)
                 ELSE RemainingErr(components, 1)

\* the closure given to map(): the SymbolInfo made from the descent's Ok value
MapSymbolInfo(found, varinfo, is_unique) ==
    IF found.tag = "Ok"
    THEN SymbolInfo(<< >>, found.address, found.typeinfo, varinfo.unit_idx,
                    varinfo.function, varinfo.namespaces, is_unique)
    ELSE found

FindSymbolFromComponents(components, additional_spec, debug_data) ==
    LET look == LookupVar(components, additional_spec, debug_data)
    IN  IF look.tag = "Descend"
        THEN MapSymbolInfo(FindMembertype(look.typeinfo, debug_data, components, 1,
                                          look.varinfo.address),
                           look.varinfo, look.is_unique)
        ELSE look

\* components.clone() with components_mangled[0] = mangled
ComponentsMangled(components, mangled) == <<mangled>> \o Tail(components)

\* mangled.to_owned() + varname.strip_prefix(components[0]).unwrap()
MangledVarname(mangled, varname, components) ==
    mangled \o StripPrefix(varname, components[1])

\* What find_symbol makes of the outcome of the first find_symbol_from_components:
\* its own result, or the retry under the mangled name.
AfterFirst(first, plain_symbol, components, debug_data) ==
    IF first.tag = "Ok" THEN [tag |-> "Return", res |-> [first EXCEPT !.name = plain_symbol]]
    ELSE IF first.tag = "Panic" THEN [tag |-> "Return", res |-> first]
    ELSE IF components[1] \in DOMAIN debug_data.demangled_names
    THEN [tag |-> "Retry",
          components |-> ComponentsMangled(components,
                                           debug_data.demangled_names[components[1]])]
    ELSE [tag |-> "Return", res |-> first]

\* the retry's own error returned instead of the first attempt's
AfterRetryOwnError(second, find_err, varname, components, debug_data) ==
    IF second.tag = "Ok"
    THEN [second EXCEPT !.name =
              MangledVarname(debug_data.demangled_names[components[1]], varname,
                             components)]
    ELSE second

\* What find_symbol makes of the outcome of the retry
AfterRetry(second, find_err, varname, components, debug_data) ==
    IF second.tag = "Ok"
    THEN [second EXCEPT !.name =
              MangledVarname(debug_data.demangled_names[components[1]], varname,
                             components)]
    ELSE IF second.tag = "Panic" THEN second
    ELSE find_err

FindSymbol(varname, debug_data) ==
    LET parsed == GetAdditionalSpec(varname)
        plain_symbol == parsed.base
        additional_spec == parsed.spec
        components == SplitSymbolComponents(plain_symbol)
        first == FindSymbolFromComponents(components, additional_spec, debug_data)
        after == AfterFirst(first, plain_symbol, components, debug_data)
    IN  IF after.tag = "Return" THEN after.res
        ELSE AfterRetry(FindSymbolFromComponents(after.components, additional_spec,
                                                 debug_data),
                        first, varname, components, debug_data)

(***************************************************************************)
(* find_symbol_by_offset (src/src/symbol.rs:329-362)                       *)
(*                                                                         *)
(* TypeInfo::get_size and TypeInfoIter are declared outside src/; they are *)
(* modelled from the specification: every type knows its byte size, and    *)
(* the iterator yields, depth first, (name suffix, type, cumulative byte   *)
(* offset) for every addressable component, pointers being leaves.         *)
(***************************************************************************)

TwoTo16 == 65536

\* a u64 size as 65536 * hi + lo, so that sizes of 2^31 bytes and above can
\* be written down
U64(hi, lo) == [hi |-> hi, lo |-> lo]

ScalarSize(kind) ==
    CASE kind = "Uint8" -> 1
      [] kind = "Uint16" -> 2
      [] kind = "Uint32" -> 4
      [] OTHER -> 8

\* TypeInfo::get_size
GetSize(typeinfo) ==
    IF "size_hi" \in DOMAIN typeinfo THEN U64(typeinfo.size_hi, typeinfo.size)
    ELSE IF "size" \in DOMAIN typeinfo
    THEN U64(typeinfo.size \div TwoTo16, typeinfo.size % TwoTo16)
    ELSE U64(0, ScalarSize(typeinfo.kind))

\* `size as i32`: the low 32 bits, read as a two's complement number
AsI32(size) ==
    LET h == size.hi % TwoTo16
    IN  IF h >= TwoTo16 \div 2 THEN (h - TwoTo16) * TwoTo16 + size.lo
        ELSE h * TwoTo16 + size.lo

RECURSIVE NatText(_)
NatText(n) ==
    IF n < 10 THEN <<Digits[n + 1]>>
    ELSE NatText(n \div 10) \o <<Digits[(n % 10) + 1]>>

\* the number of elements of an array of extents dim
RECURSIVE DimTotal(_)
DimTotal(dim) == IF Len(dim) = 0 THEN 1 ELSE Head(dim) * DimTotal(Tail(dim))

\* the suffix of array element number idx (row major) of an array of extents dim
RECURSIVE ElementSuffix(_, _)
ElementSuffix(dim, idx) ==
    IF Len(dim) = 0 THEN << >>
    ELSE LET last == dim[Len(dim)]
         IN  ElementSuffix(SubSeq(dim, 1, Len(dim) - 1), idx \div last)
                 \o <<".", "_">> \o NatText(idx % last) \o <<"_">>

Item(name, typeinfo, offset) == [name |-> name, typeinfo |-> typeinfo, offset |-> offset]

\* the components below typeinfo, in depth-first order: each component is
\* followed by its own components
RECURSIVE ItemsOf(_, _, _, _)
RECURSIVE ItemsOfMembers(_, _, _, _, _)
RECURSIVE ItemsOfElements(_, _, _, _, _)
ItemsOfMembers(types, members, i, prefix, offset) ==
    IF i > Len(members) THEN << >>
    ELSE LET membertype == GetReference(members[i].type, types)
             name == prefix \o <<".">> \o members[i].name
             at == offset + members[i].offset
         IN  <<Item(name, membertype, at)>> \o ItemsOf(types, membertype, name, at)
                 \o ItemsOfMembers(types, members, i + 1, prefix, offset)

ItemsOfElements(types, typeinfo, idx, prefix, offset) ==
    IF idx >= DimTotal(typeinfo.dim) THEN << >>
    ELSE LET elementtype == GetReference(typeinfo.arraytype, types)
             name == prefix \o ElementSuffix(typeinfo.dim, idx)
             at == offset + idx * typeinfo.stride
         IN  <<Item(name, elementtype, at)>> \o ItemsOf(types, elementtype, name, at)
                 \o ItemsOfElements(types, typeinfo, idx + 1, prefix, offset)

ItemsOf(types, typeinfo, prefix, offset) ==
    CASE typeinfo.kind \in {"Struct", "Union"} ->
             ItemsOfMembers(types, typeinfo.members, 1, prefix, offset)
      [] typeinfo.kind = "Class" ->
             ItemsOfMembers(types, typeinfo.inheritance, 1, prefix, offset)
                 \o ItemsOfMembers(types, typeinfo.members, 1, prefix, offset)
      [] typeinfo.kind = "Array" ->
             ItemsOfElements(types, typeinfo, 0, prefix, offset)
      [] OTHER -> << >>

\* TypeInfoIter::new(types, typeinfo, false), collected
TypeInfoIter(types, typeinfo) == ItemsOf(types, typeinfo, << >>, 0)

OffsetBoundsErr(offset, name) == [kind |-> "OffsetBounds", offset |-> offset, symbol |-> name]

NoComponentErr(offset, name) == [kind |-> "NoComponent", offset |-> offset, symbol |-> name]

\* `for (name, typeinfo, item_offset) in iter { if item_offset == offset ...`
FirstAtOffset(items, offset) ==
    LET hits == {i \in 1..Len(items) : items[i].offset = offset}
    IN  IF hits = {} THEN None
        ELSE Some(items[CHOOSE i \in hits : \A j \in hits : i <= j])

FindSymbolByOffset(base_symbol, offset, debug_data) ==
    IF offset < 0 \/ offset > AsI32(GetSize(base_symbol.typeinfo))
    THEN Err(OffsetBoundsErr(offset, base_symbol.name))
    ELSE LET found == FirstAtOffset(TypeInfoIter(debug_data.types, base_symbol.typeinfo),
                                    offset)
         IN  IF found.some
             THEN SymbolInfo(base_symbol.name \o found.val.name,
                             found.val.offset + base_symbol.address,
                             found.val.typeinfo, base_symbol.unit_idx,
                             base_symbol.function_name, base_symbol.namespaces,
                             base_symbol.is_unique)
             ELSE Err(NoComponentErr(offset, base_symbol.name))

(***************************************************************************)
(* DebugData snapshots the resolver is run against.  They are built the    *)
(* way the tests of symbol.rs build theirs (test_find_symbol_of_array,     *)
(* test_find_symbol_of_array_in_struct, test_select_varinfo), with more    *)
(* kinds of type: a two-dimensional array, a struct with a scalar, an      *)
(* array, a pointer and a by-reference struct member, a class with base    *)
(* classes, same-named variables in several units, functions and           *)
(* namespaces, a mangled variable with its demangled name.                 *)
(***************************************************************************)

n_arr == <<"a", "r", "r">>
n_m == <<"m">>
n_s == <<"s">>
n_c == <<"c">>
n_var == <<"v", "a", "r">>
n_foo == <<"f", "o", "o">>
n_bar == <<"b", "a", "r">>
n_zfoo == <<"_", "Z", "3", "f", "o", "o">>
n_zbar == <<"_", "Z", "3", "b", "a", "r">>
n_zz == <<"z", "z">>
n_d == <<"d">>
n_h == <<"h">>
n_a == <<"a">>
n_it == <<"i", "t">>
n_in == <<"i", "n">>
n_p == <<"p">>
n_x == <<"x">>
n_y == <<"y">>
n_k == <<"k">>
n_B == <<"B">>
n_R == <<"R">>
n_u1u == <<"_", "1", "_">>
n_us == <<"_">>
n_empty == << >>
n_fa == <<"f", "a">>
n_fb == <<"f", "b">>
n_na == <<"n", "a">>
n_nb == <<"n", "b">>
n_Global == <<"G", "l", "o", "b", "a", "l">>
n_file1 == <<"f", "1", ".", "c">>
n_file2 == <<"f", "2", ".", "c">>
n_file1_c == <<"f", "1", "_", "c">>
n_file2_c == <<"f", "2", "_", "c">>
n_big == <<"b", "i", "g">>
n_n == <<"n">>

Uint8 == Scalar("Uint8")
Uint16 == Scalar("Uint16")
Uint32 == Scalar("Uint32")
Pointer == Scalar("Pointer")

\* struct { uint16_t x; uint16_t y; }
InnerStruct == StructT(<<Member(n_x, Uint16, 0), Member(n_y, Uint16, 2)>>, 4)

\* union { uint16_t x; uint16_t y; }
InnerUnion == UnionT(<<Member(n_x, Uint16, 0), Member(n_y, Uint16, 0)>>, 2)

\* uint32_t it[2]
ItemArray == ArrayT(Uint32, <<2>>, 8, 4)

\* struct { uint8_t a; uint32_t it[2]; uint16_t h; void *p; struct inner in; }
\* where h is the name given
OuterStruct(h) ==
    StructT(<<Member(n_a, Uint8, 0), Member(n_it, ItemArray, 4),
              Member(h, Uint16, 12), Member(n_p, Pointer, 16),
              Member(n_in, TypeRefT(4), 24)>>, 28)

\* class c : B, R { uint8_t k; }
DerivedClass ==
    ClassT(<<Member(n_k, Uint8, 8), Member(n_in, TypeRefT(4), 12)>>,
           <<Member(n_B, InnerStruct, 0), Member(n_R, TypeRefT(4), 4)>>, 16)

\* struct node { uint16_t x; struct node in; class peer k; }: the type map
\* may hold a struct that refers to itself by key
NodeStruct ==
    StructT(<<Member(n_x, Uint16, 0), Member(n_in, TypeRefT(8), 4),
              Member(n_k, TypeRefT(10), 8)>>, 12)

\* class peer { struct node in; }: node and peer refer to each other
PeerClass == ClassT(<<Member(n_in, TypeRefT(8), 2)>>, << >>, 12)

TypesWith(matrix, outer) ==
    (1 :> ItemArray) @@ (2 :> matrix) @@ (3 :> outer) @@ (4 :> InnerStruct)
        @@ (5 :> Uint32) @@ (6 :> DerivedClass) @@ (8 :> NodeStruct)
        @@ (10 :> PeerClass)

VarEntry(name, list) == [name |-> name, list |-> list]

\* foo is a variable of its own and the demangled name of _Z3foo; bar is only
\* the demangled name of _Z3bar
CommonVariables(foo_type, zfoo_type) ==
    <<VarEntry(n_arr, <<VarInfoT(100, 1, 0, None, << >>)>>),
      VarEntry(n_m, <<VarInfoT(200, 2, 0, None, << >>)>>),
      VarEntry(n_s, <<VarInfoT(300, 3, 1, None, << >>)>>),
      VarEntry(n_c, <<VarInfoT(400, 6, 1, None, <<n_na>>)>>),
      VarEntry(n_foo, <<VarInfoT(500, foo_type, 0, None, << >>)>>),
      VarEntry(n_zfoo, <<VarInfoT(600, zfoo_type, 0, None, << >>)>>),
      VarEntry(n_zbar, <<VarInfoT(700, 1, 1, None, << >>)>>),
      VarEntry(n_n, <<VarInfoT(900, 8, 0, None, << >>)>>)>>

Demangled == (n_foo :> n_zfoo) @@ (n_bar :> n_zbar)

\* var: four same-named variables; the first two differ in function and unit;
\* foo is a scalar and _Z3foo a struct; the struct s has a member named _1_
DebugDataA ==
    [variables |-> CommonVariables(5, 4) \o
         <<VarEntry(n_var,
               <<VarInfoT(1000, 5, 0, Some(n_fa), << >>),
                 VarInfoT(2000, 5, 1, Some(n_fb), << >>),
                 VarInfoT(3000, 5, 1, Some(n_fb), <<n_na>>),
                 VarInfoT(4000, 5, 0, None, <<n_na, n_nb>>)>>)>>,
     types |-> TypesWith(ArrayT(Uint16, <<2, 3>>, 12, 2), OuterStruct(n_u1u)),
     demangled_names |-> Demangled,
     unit_names |-> <<Some(n_file1), Some(n_file2)>>]

\* var: the only variable of function fb lives in namespace na; unit 0 has no
\* display name; the matrix has its extents the other way round; d is a variable
\* whose typeref is not a key of the type map; foo is an array of 2 and _Z3foo
\* the matrix; no name looks like an index; type 4 is a union
DebugDataB ==
    [variables |-> CommonVariables(1, 2) \o
         <<VarEntry(n_var,
               <<VarInfoT(1000, 1, 0, Some(n_fa), << >>),
                 VarInfoT(3000, 5, 1, Some(n_fb), <<n_na>>),
                 VarInfoT(2000, 5, 1, None, << >>)>>),
           VarEntry(n_d, <<VarInfoT(800, 9, 1, Some(n_fa), << >>)>>)>>,
     types |-> [TypesWith(ArrayT(Uint16, <<3, 2>>, 12, 2), OuterStruct(n_h))
                    EXCEPT ![4] = InnerUnion],
     demangled_names |-> Demangled,
     unit_names |-> <<None, Some(n_file2)>>]

Snapshots == {DebugDataA, DebugDataB}

\* uint8_t big[32768][65536]: 2^31 bytes
BigBuffer == ArrayT(Uint8, <<32768, 65536>>, 0, 1) @@ [size_hi |-> 32768]

\* DebugDataA and a variable of 2^31 bytes
DebugDataC ==
    [DebugDataA EXCEPT
        !.variables = @ \o <<VarEntry(n_big, <<VarInfoT(5000, 7, 0, None, << >>)>>)>>,
        !.types = @ @@ (7 :> BigBuffer)]

ByOffsetSnapshots == {DebugDataA, DebugDataB, DebugDataC}

(***************************************************************************)
(* Expressions handed to find_symbol.  A query is kept in structured form  *)
(* (path tokens, suffix groups) beside its text, so that a property can    *)
(* speak of "the index components" or "the groups" of the expression; the  *)
(* code only ever sees the text.                                           *)
(*   token  [k |-> "name", t |-> text]   written  .text  (the base: text)  *)
(*          [k |-> "br",   t |-> digits] written  [digits]                 *)
(*          [k |-> "us",   t |-> digits] written  ._digits_                *)
(*   group  [key |-> "Function:" | "Namespace:" | "CompileUnit:" | other,  *)
(*           val |-> text]               written  {keyval}                 *)
(*   closed FALSE: the last '}' of the suffix is missing                   *)
(***************************************************************************)

MaxTail == 2
MaxIndex == 2
MaxGroups == 3

NameTok(t) == [k |-> "name", t |-> t]

BrTok(t) == [k |-> "br", t |-> t]

UsTok(t) == [k |-> "us", t |-> t]

Group(key, val) == [key |-> key, val |-> val]

Query(comps, groups, closed) == [comps |-> comps, groups |-> groups, closed |-> closed]

RenderToken(tok) ==
    CASE tok.k = "name" -> <<".">> \o tok.t
      [] tok.k = "br" -> <<"[">> \o tok.t \o <<"]">>
      [] tok.k = "us" -> <<".", "_">> \o tok.t \o <<"_">>

RECURSIVE RenderTail(_, _)
RenderTail(comps, i) ==
    IF i > Len(comps) THEN << >>
    ELSE RenderToken(comps[i]) \o RenderTail(comps, i + 1)

RenderPath(comps) == comps[1].t \o RenderTail(comps, 2)

RECURSIVE RenderGroups(_, _)
RenderGroups(groups, i) ==
    IF i > Len(groups) THEN << >>
    ELSE <<"{">> \o groups[i].key \o groups[i].val \o <<"}">> \o RenderGroups(groups, i + 1)

RenderSuffix(groups, closed) ==
    LET text == RenderGroups(groups, 1)
    IN  IF closed \/ Len(text) = 0 THEN text ELSE SubSeq(text, 1, Len(text) - 1)

Render(q) == RenderPath(q.comps) \o RenderSuffix(q.groups, q.closed)

BaseNames == {n_arr, n_m, n_s, n_c, n_var, n_foo, n_bar, n_d, n_zz}

MemberNames == {n_a, n_it, n_in, n_x, n_B, n_us, n_empty, n_zz}

IndexTexts == {<<Digits[n + 1]>> : n \in 0..MaxIndex}

TailTokens ==
    {NameTok(t) : t \in MemberNames} \cup {BrTok(t) : t \in IndexTexts}
        \cup {UsTok(t) : t \in IndexTexts}

SeqsUpTo(S, n) == UNION {[1..k -> S] : k \in 0..n}

\* every path of a base name and at most MaxTail further components, no suffix
PathQueries ==
    {Query(<<NameTok(b)>> \o tail, << >>, TRUE) :
        b \in BaseNames, tail \in SeqsUpTo(TailTokens, MaxTail)}

GroupTokens ==
    {Group(FunctionKey, n_fa), Group(FunctionKey, n_fb),
     Group(NamespaceKey, n_na), Group(NamespaceKey, n_nb),
     Group(CompileUnitKey, n_file1_c), Group(CompileUnitKey, n_file2_c),
     Group(NamespaceKey, n_Global)}

\* the same-named variable, with every suffix of at most MaxGroups groups
SuffixQueries ==
    {Query(<<NameTok(n_var)>>, groups, closed) :
        groups \in SeqsUpTo(GroupTokens, MaxGroups) \ {<< >>}, closed \in BOOLEAN}

d0 == <<"0">>
d1 == <<"1">>
d2 == <<"2">>

\* longer paths, other spellings of an index, suffixes on a path
MoreQueries ==
    {Query(<<NameTok(n_m), BrTok(d1), BrTok(d1), NameTok(n_x)>>, << >>, TRUE),
     Query(<<NameTok(n_m), UsTok(d1), BrTok(d0), UsTok(d0)>>, << >>, TRUE),
     Query(<<NameTok(n_s), NameTok(n_it), BrTok(d1), NameTok(n_x)>>, << >>, TRUE),
     Query(<<NameTok(n_s), NameTok(n_it), UsTok(d1), NameTok(n_x), NameTok(n_y)>>,
           << >>, TRUE),
     Query(<<NameTok(n_s), NameTok(n_in), NameTok(n_y)>>, << >>, TRUE),
     Query(<<NameTok(n_s), NameTok(n_in), NameTok(n_x), BrTok(d0)>>, << >>, TRUE),
     Query(<<NameTok(n_s), NameTok(n_p)>>, << >>, TRUE),
     Query(<<NameTok(n_s), NameTok(n_p), NameTok(n_x)>>, << >>, TRUE),
     Query(<<NameTok(n_c), NameTok(n_k)>>, << >>, TRUE),
     Query(<<NameTok(n_c), NameTok(n_in), NameTok(n_y)>>, << >>, TRUE),
     Query(<<NameTok(n_c), NameTok(n_B), NameTok(n_us), NameTok(n_x)>>, << >>, TRUE),
     Query(<<NameTok(n_c), NameTok(n_B), NameTok(n_y)>>, << >>, TRUE),
     Query(<<NameTok(n_c), NameTok(n_R)>>, << >>, TRUE),
     Query(<<NameTok(n_c), NameTok(n_R), NameTok(n_x)>>, << >>, TRUE),
     Query(<<NameTok(n_c), NameTok(n_R), NameTok(n_us), NameTok(n_x)>>, << >>, TRUE),
     Query(<<NameTok(n_n), NameTok(n_in), NameTok(n_in), NameTok(n_x)>>, << >>, TRUE),
     Query(<<NameTok(n_n), NameTok(n_in), NameTok(n_in), NameTok(n_in), NameTok(n_in),
             NameTok(n_in)>>, << >>, TRUE),
     Query(<<NameTok(n_n), NameTok(n_k), NameTok(n_in), NameTok(n_k), NameTok(n_in)>>,
           << >>, TRUE),
     Query(<<NameTok(n_n), NameTok(n_k), NameTok(n_x)>>, << >>, TRUE),
     Query(<<NameTok(n_n), NameTok(n_in), BrTok(d0)>>, << >>, TRUE),
     Query(<<NameTok(n_arr), BrTok(<<"0", "1">>)>>, << >>, TRUE),
     Query(<<NameTok(n_arr), UsTok(<<"+", "1">>)>>, << >>, TRUE),
     Query(<<NameTok(n_arr), BrTok(<<"1", "0">>)>>, << >>, TRUE),
     Query(<<NameTok(n_arr), BrTok(<<"x">>)>>, << >>, TRUE),
     Query(<<NameTok(n_arr), UsTok(<< >>)>>, << >>, TRUE),
     Query(<<NameTok(n_zfoo), NameTok(n_x)>>, << >>, TRUE),
     Query(<<NameTok(n_foo), NameTok(n_y)>>,
           <<Group(FunctionKey, n_fa)>>, TRUE),
     Query(<<NameTok(n_bar), BrTok(d1)>>,
           <<Group(CompileUnitKey, n_file2_c)>>, TRUE),
     Query(<<NameTok(n_var), BrTok(d1)>>, <<Group(FunctionKey, n_fa)>>, TRUE),
     Query(<<NameTok(n_var), UsTok(d1)>>, <<Group(FunctionKey, n_fb)>>, TRUE),
     Query(<<NameTok(n_var), BrTok(d1)>>,
           <<Group(<<"X", ":">>, n_fa), Group(NamespaceKey, n_na),
             Group(FunctionKey, n_fa), Group(FunctionKey, n_fb)>>, TRUE),
     Query(<<NameTok(n_var)>>,
           <<Group(FunctionKey, n_fa), Group(NamespaceKey, n_na),
             Group(NamespaceKey, n_nb), Group(CompileUnitKey, n_file1_c),
             Group(NamespaceKey, n_Global)>>, TRUE),
     Query(<<NameTok(n_var)>>,
           <<Group(NamespaceKey, n_na), Group(NamespaceKey, n_nb),
             Group(CompileUnitKey, n_file1_c), Group(FunctionKey, n_fb)>>, TRUE)}

Queries == PathQueries \cup SuffixQueries \cup MoreQueries

MaxOffset == 13

\* the offsets asked for: one below zero up to one past the largest small type
Offsets == -1..MaxOffset

\* the base symbols of find_symbol_by_offset: every variable, every path of one
\* further component, and some behind a suffix or a longer path
ByOffsetQueries ==
    {q \in PathQueries : Len(q.comps) <= 2}
        \cup {Query(<<NameTok(n_big)>>, << >>, TRUE),
              Query(<<NameTok(n_s), NameTok(n_in), NameTok(n_y)>>, << >>, TRUE),
              Query(<<NameTok(n_var)>>, <<Group(FunctionKey, n_fb)>>, TRUE),
              Query(<<NameTok(n_bar), BrTok(d1)>>,
                    <<Group(CompileUnitKey, n_file2_c)>>, TRUE)}

(***************************************************************************)
(* The DWARF reader (src/src/debuginfo/dwarf/mod.rs)                       *)
(*                                                                         *)
(* A unit is its root entry and the entries below it in the order of       *)
(* next_dfs, each with its depth delta.  An attribute is an Option: an     *)
(* accessor that fails and an attribute that is absent are both None, as   *)
(* every caller treats them alike (`.ok()`, `?`).  The target of a         *)
(* specification or abstract_origin link is given by its name and typeref. *)
(***************************************************************************)

Target(name, typeref) == [name |-> name, typeref |-> typeref]

Die(depth_delta, tag, name, typeref, location, specification, abstract_origin) ==
    [depth_delta |-> depth_delta, tag |-> tag, name |-> name, typeref |-> typeref,
     location |-> location, specification |-> specification,
     abstract_origin |-> abstract_origin]

Unit(root, entries) == [root |-> root, entries |-> entries]

\* get_global_variable, if a specification target fell back on the entry's own
\* attributes as an abstract origin does
GetGlobalVariableOwnFirst(entry) ==
    IF ~entry.location.some THEN [tag |-> "Local"]
    ELSE LET link == IF entry.specification.some THEN entry.specification.val
                     ELSE IF entry.abstract_origin.some THEN entry.abstract_origin.val
                     ELSE Target(None, None)
             name == IF entry.name.some THEN entry.name ELSE link.name
             typeref == IF entry.typeref.some THEN entry.typeref ELSE link.typeref
         IN  IF name.some /\ typeref.some
             THEN [tag |-> "Global", name |-> name.val, typeref |-> typeref.val,
                   address |-> entry.location.val]
             ELSE [tag |-> "Failed"]

\* get_global_variable: Ok(Some((name, typeref, address))), Ok(None) or Err
GetGlobalVariable(entry) ==
    IF ~entry.location.some THEN [tag |-> "Local"]
    ELSE LET link == IF entry.specification.some THEN entry.specification.val
                     ELSE IF entry.abstract_origin.some THEN entry.abstract_origin.val
                     ELSE Target(None, None)
             name == IF entry.specification.some THEN link.name
                     ELSE IF entry.name.some THEN entry.name
                     ELSE link.name
             typeref == IF entry.specification.some THEN link.typeref
                        ELSE IF entry.typeref.some THEN entry.typeref
                        ELSE link.typeref
         IN  IF name.some /\ typeref.some
             THEN [tag |-> "Global", name |-> name.val, typeref |-> typeref.val,
                   address |-> entry.location.val]
             ELSE [tag |-> "Failed"]

Reverse(s) == [i \in 1..Len(s) |-> s[Len(s) + 1 - i]]

\* get_varinfo_from_context collecting the namespaces in stack order
GetVarinfoFromContextOuterFirst(context) ==
    LET rev == Reverse(context)
        functions == SelectSeq(rev, LAMBDA c : c.tag = "subprogram")
        spaces == SelectSeq(context, LAMBDA c : c.tag = "namespace" /\ c.name.some)
    IN  [function |-> IF Len(functions) = 0 THEN None ELSE functions[1].name,
         namespaces |-> [i \in 1..Len(spaces) |-> spaces[i].name.val]]

\* get_varinfo_from_context: both searches run over the context reversed
GetVarinfoFromContext(context) ==
    LET rev == Reverse(context)
        functions == SelectSeq(rev, LAMBDA c : c.tag = "subprogram")
        spaces == SelectSeq(rev, LAMBDA c : c.tag = "namespace" /\ c.name.some)
    IN  [function |-> IF Len(functions) = 0 THEN None ELSE functions[1].name,
         namespaces |-> [i \in 1..Len(spaces) |-> spaces[i].name.val]]

\* a truncate that keeps the whole stack
TruncateNothing(context, len) == context

\* Vec::truncate(len as usize): a negative len is a huge usize and truncates
\* nothing
Truncate(context, len) ==
    IF len < 0 \/ len >= Len(context) THEN context ELSE SubSeq(context, 1, len)

\* variables.entry(name).or_default().push(varinfo)
PushVariable(variables, name, info) ==
    IF \E i \in 1..Len(variables) : variables[i].name = name
    THEN [i \in 1..Len(variables) |->
             IF variables[i].name = name
             THEN [variables[i] EXCEPT !.list = Append(@, info)]
             ELSE variables[i]]
    ELSE Append(variables, [name |-> name, list |-> <<info>>])

\* the entry pushed on the context: only namespaces and subprograms keep a name
ContextEntry(entry) ==
    [tag |-> entry.tag,
     name |-> IF entry.tag \in {"namespace", "subprogram"} THEN entry.name ELSE None]

Supported(typeinfo) == [encoding |-> "supported", type |-> typeinfo]

Unsupported == [encoding |-> "unsupported"]

Malformed == [encoding |-> "malformed"]

\* the type an unknown encoding degrades to
DefaultInteger == Scalar("Uint32")

Typerefs(variables) ==
    UNION {{variables[i].list[j].typeref : j \in 1..Len(variables[i].list)} :
              i \in 1..Len(variables)}

\* load_types, which is not under src/: the type entry of every variable's
\* typeref is built; a supported encoding gives its type, an unknown one the
\* default-width integer; a malformed entry is skipped, and so is a typeref
\* that points at no type entry
LoadTypes(variables, type_entries) ==
    LET built == {t \in Typerefs(variables) \cap DOMAIN type_entries :
                     type_entries[t].encoding # "malformed"}
    IN  [t \in built |-> IF type_entries[t].encoding = "supported"
                         THEN type_entries[t].type
                         ELSE DefaultInteger]

\* update_variable_type_offset, if it kept every variable
UpdateVariableTypeOffsetKeepingAll(variables, types) == variables

\* update_variable_type_offset, which is not under src/: a variable whose type
\* was not built is dropped, and with its last variable a name
UpdateVariableTypeOffset(variables, types) ==
    LET kept == [i \in 1..Len(variables) |->
                    [variables[i] EXCEPT !.list =
                        SelectSeq(@, LAMBDA v : v.typeref \in DOMAIN types)]]
    IN  SelectSeq(kept, LAMBDA e : Len(e.list) > 0)

\* cpp_demangle on the names the model has: _Z<n><name of n characters>
Demangle(varname) ==
    IF /\ Len(varname) > 3
       /\ IsDigit(varname[3])
       /\ Len(varname) = 3 + DigitVal(varname[3])
    THEN Some(SubSeq(varname, 4, Len(varname)))
    ELSE None

\* demangle_cpp_varnames: demangled name -> mangled name
DemangleCppVarnames(input) ==
    LET mangled == {varname \in input :
                       StartsWith(varname, <<"_", "Z">>) /\ Demangle(varname).some}
    IN  [d \in {Demangle(varname).val : varname \in mangled} |->
            CHOOSE varname \in mangled : Demangle(varname).val = d]

\* read_debug_info_entries after load_variables
ReadDebugInfoEntries(variables, unit_names, type_entries) ==
    LET types == LoadTypes(variables, type_entries)
    IN  [variables |-> UpdateVariableTypeOffset(variables, types),
         types |-> types,
         demangled_names |->
             DemangleCppVarnames({variables[i].name : i \in 1..Len(variables)}),
         unit_names |-> unit_names]

\* the loop of load_variables over the entries of one unit, from entry i on
RECURSIVE WalkEntries(_, _, _, _, _, _)
WalkEntries(entries, i, depth, context, variables, unit_idx) ==
    IF i > Len(entries) THEN variables
    ELSE LET entry == entries[i]
             new_depth == depth + entry.depth_delta
             new_context == Append(Truncate(context, new_depth - 1), ContextEntry(entry))
             global == GetGlobalVariable(entry)
             scope == GetVarinfoFromContext(new_context)
         IN  WalkEntries(entries, i + 1, new_depth, new_context,
                         IF entry.tag = "variable" /\ global.tag = "Global"
                         THEN PushVariable(variables, global.name,
                                           VarInfoT(global.address, global.typeref,
                                                    unit_idx, scope.function,
                                                    scope.namespaces))
                         ELSE variables,
                         unit_idx)

\* load_variables over units whose abbreviations can be read, from unit n on
\* (counted from 1): the variable table
RECURSIVE LoadVariables(_, _, _)
LoadVariables(units, n, variables) ==
    IF n > Len(units) THEN variables
    ELSE LoadVariables(units, n + 1,
                       WalkEntries(units[n].entries, 1, 0, << >>, variables, n - 1))

(***************************************************************************)
(* Debug info to load                                                      *)
(***************************************************************************)

Variable(depth_delta, name, typeref, location) ==
    Die(depth_delta, "variable", name, typeref, location, None, None)

Scope(depth_delta, tag, name) == Die(depth_delta, tag, name, None, None, None, None)

\* type entries at offsets 10..40; no entry at offset 50
TypeEntries ==
    (10 :> Supported(Uint32)) @@ (20 :> Supported(InnerStruct)) @@ (30 :> Unsupported)
        @@ (40 :> Malformed)

\* f1.c: arr; namespace na { var; fa() { static var (type malformed); a local;
\* a block { static d (no type entry) } } }; _Z3foo
UnitOne ==
    Unit(Some([tag |-> "compile_unit", name |-> Some(n_file1)]),
         <<Variable(1, Some(n_arr), Some(10), Some(100)),
           Scope(0, "namespace", Some(n_na)),
           Variable(1, Some(n_var), Some(20), Some(1000)),
           Scope(0, "subprogram", Some(n_fa)),
           Variable(1, Some(n_var), Some(40), Some(2000)),
           Variable(0, Some(n_k), Some(10), None),
           Scope(0, "lexical_block", None),
           Variable(1, Some(n_d), Some(50), Some(800)),
           Variable(-3, Some(n_zfoo), Some(30), Some(600))>>)

\* a partial unit without a name: a definition that refers to its declaration,
\* an inlined variable without a name of its own, a variable without a name, a
\* variable without a location, a class, a second var in namespace nb of a
\* namespace without a name, c in namespace na of nb, a variable of a
\* malformed type
UnitTwo ==
    Unit(Some([tag |-> "partial_unit", name |-> None]),
         <<Die(1, "variable", Some(n_x), Some(40), Some(3000),
               Some(Target(Some(n_var), Some(10))), None),
           Die(0, "variable", None, Some(20), Some(4000), None,
               Some(Target(Some(n_s), Some(40)))),
           Variable(0, None, Some(10), Some(5000)),
           Variable(0, Some(n_a), Some(10), None),
           Scope(0, "class_type", Some(n_c)),
           Scope(0, "namespace", None),
           Scope(1, "namespace", Some(n_nb)),
           Variable(1, Some(n_var), Some(30), Some(6000)),
           Scope(0, "namespace", Some(n_na)),
           Variable(1, Some(n_c), Some(10), Some(400)),
           Variable(-3, Some(n_m), Some(40), Some(200))>>)

\* a unit whose root entry cannot be read
UnitThree == Unit(None, << >>)

\* a unit whose root is neither a compile unit nor a partial unit: s; a
\* variable without a type; a definition whose declaration has no name; an
\* inlined variable without a type of its own; a variable with both links
UnitFour ==
    Unit(Some([tag |-> "type_unit", name |-> Some(n_file2)]),
         <<Variable(1, Some(n_s), Some(20), Some(300)),
           Variable(0, Some(n_y), None, Some(7000)),
           Die(0, "variable", Some(n_p), Some(10), Some(8000),
               Some(Target(None, Some(20))), None),
           Die(0, "variable", Some(n_h), None, Some(9000), None,
               Some(Target(Some(n_a), Some(10)))),
           Die(0, "variable", Some(n_it), Some(10), Some(9500),
               Some(Target(Some(n_in), Some(20))), Some(Target(Some(n_B), Some(30))))>>)

\* a unit whose abbreviations cannot be read
UnitFive == Unit(None, << >>) @@ [abbreviations |-> FALSE]

Units == {UnitOne, UnitTwo, UnitThree, UnitFour, UnitFive}

MaxUnits == 2

n_elf == <<"a", ".", "e", "l", "f">>

\* what can be wrong with the file: it cannot be opened, mapped or parsed as an
\* object file, it has no .debug_info section, or the data of one of its debug
\* sections cannot be read
Containers == {"ok", "unopenable", "unmappable", "unparsable", "no_debug_info",
               "unreadable_section"}

\* the binary to load: its path, its container, the units of .debug_info up
\* to the first whose header does not parse (at most MaxUnits), and the type
\* entries
Dwarfs ==
    {[filename |-> n_elf, container |-> c, units |-> us, type_entries |-> TypeEntries] :
        c \in Containers, us \in UNION {[1..n -> Units] : n \in 0..MaxUnits}}

\* an error of load_dwarf: the texts put into its message
LoadError(kind, texts) == [kind |-> kind, texts |-> texts]

\* verify_dwarf_compile_units
VerifyDwarfCompileUnits(units) == Len(units) > 0

\* load_dwarf up to the construction of the DebugDataReader: the error it
\* returns, or None
LoadDwarfChecks(file) ==
    IF file.container = "unopenable" THEN Some(LoadError("open", {file.filename}))
    ELSE IF file.container = "unmappable" THEN Some(LoadError("map", {file.filename}))
    ELSE IF file.container = "unparsable" THEN Some(LoadError("parse", {file.filename}))
    ELSE IF file.container = "no_debug_info"
    THEN Some(LoadError("no_debug_info", {file.filename}))
    ELSE IF file.container = "unreadable_section" THEN Some(LoadError("section", {}))
    ELSE IF ~VerifyDwarfCompileUnits(file.units)
    THEN Some(LoadError("no_units", {file.filename}))
    ELSE None

(***************************************************************************)
(* The resolver as a state machine: one call of find_symbol at a time      *)
(* against an immutable DebugData.  pc is the position inside the call:    *)
(*   "idle"      between calls                                             *)
(*   "lookup"    in find_symbol_from_components, before the descent        *)
(*   "descend"   in an invocation of find_membertype                       *)
(*   "done"      find_symbol has returned result to its caller             *)
(*   "panicked"  the call panicked                                         *)
(* attempt is 1 for the first find_symbol_from_components of the call and  *)
(* 2 for the retry under the mangled name; first and second are what the   *)
(* two have returned (first is find_err when it is an error).              *)
(***************************************************************************)

VARIABLES debug_data, query, varname, pc, plain_symbol, additional_spec, components,
          components_mangled, attempt, first, second, varinfo, is_unique, typeinfo,
          component_index, address, result, calls, offset, by_offset

\* The reader: dwarf is the debug info of the binary, load_pc the position in
\* read_debug_info_entries ("units" between two units of load_variables,
\* "entries" inside a unit, "loaded" when the DebugData is built),
\* units_loaded is self.units.list.len(), entry_pos the next entry of the unit,
\* and depth, context, variables and unit_names are those of load_variables.
VARIABLES dwarf, load_pc, units_loaded, entry_pos, depth, context, variables,
          unit_names, load_err

loader == <<dwarf, load_pc, units_loaded, entry_pos, depth, context, variables,
            unit_names, load_err>>

resolver == <<query, varname, pc, plain_symbol, additional_spec, components,
              components_mangled, attempt, first, second, varinfo, is_unique, typeinfo,
              component_index, address, result, calls, offset, by_offset>>

vars == <<debug_data, resolver, loader>>

cursor == <<varinfo, is_unique, typeinfo, component_index, address>>

Nothing == [tag |-> "Nothing"]

\* no call is running
Fresh ==
    /\ query = Nothing
    /\ varname = << >>
    /\ pc = "idle"
    /\ plain_symbol = << >>
    /\ additional_spec = None
    /\ components = << >>
    /\ components_mangled = << >>
    /\ attempt = 1
    /\ first = Nothing
    /\ second = Nothing
    /\ varinfo = Nothing
    /\ is_unique = FALSE
    /\ typeinfo = Nothing
    /\ component_index = 0
    /\ address = 0
    /\ result = Nothing
    /\ calls = 0
    /\ offset = Nothing
    /\ by_offset = Nothing

\* nothing is being loaded
Unloaded ==
    /\ dwarf = Nothing
    /\ load_pc = "none"
    /\ units_loaded = 0
    /\ entry_pos = 0
    /\ depth = 0
    /\ context = << >>
    /\ variables = << >>
    /\ unit_names = << >>
    /\ load_err = None

Init == debug_data \in Snapshots /\ Fresh /\ Unloaded

InitByOffset == debug_data \in ByOffsetSnapshots /\ Fresh /\ Unloaded

\* the components of the attempt that is running
CurrentComponents == IF attempt = 1 THEN components ELSE components_mangled

\* find_symbol is called with an expression: get_additional_spec,
\* split_symbol_components, and the first find_symbol_from_components begins
FindSymbolCall(q) ==
    /\ pc = "idle"
    /\ query' = q
    /\ varname' = Render(q)
    /\ LET parsed == GetAdditionalSpec(Render(q))
       IN  /\ plain_symbol' = parsed.base
           /\ additional_spec' = parsed.spec
           /\ components' = SplitSymbolComponents(parsed.base)
    /\ components_mangled' = << >>
    /\ attempt' = 1
    /\ first' = Nothing
    /\ second' = Nothing
    /\ varinfo' = Nothing
    /\ is_unique' = FALSE
    /\ typeinfo' = Nothing
    /\ component_index' = 0
    /\ address' = 0
    /\ result' = Nothing
    /\ calls' = 0
    /\ pc' = "lookup"
    /\ UNCHANGED <<debug_data, offset, by_offset, loader>>

\* find_symbol_from_components has produced res: find_symbol returns, or retries
\* under the mangled name
Finish(res) ==
    IF attempt = 1
    THEN LET after == AfterFirst(res, plain_symbol, components, debug_data)
         IN  IF after.tag = "Return"
             THEN /\ result' = after.res
                  /\ pc' = IF after.res.tag = "Panic" THEN "panicked" ELSE "done"
                  /\ first' = res
                  /\ UNCHANGED <<components_mangled, attempt, second>>
             ELSE /\ components_mangled' = after.components
                  /\ attempt' = 2
                  /\ first' = res
                  /\ pc' = "lookup"
                  /\ UNCHANGED <<result, second>>
    ELSE LET res2 == AfterRetry(res, first, varname, components, debug_data)
         IN  /\ result' = res2
             /\ pc' = IF res2.tag = "Panic" THEN "panicked" ELSE "done"
             /\ second' = res
             /\ UNCHANGED <<components_mangled, attempt, first>>

\* find_symbol_from_components up to the call of find_membertype
LookupStep ==
    /\ pc = "lookup"
    /\ LET look == LookupVar(CurrentComponents, additional_spec, debug_data)
       IN  IF look.tag = "Descend"
           THEN /\ varinfo' = look.varinfo
                /\ is_unique' = look.is_unique
                /\ typeinfo' = look.typeinfo
                /\ component_index' = 1
                /\ address' = look.varinfo.address
                /\ calls' = 0
                /\ pc' = "descend"
                /\ UNCHANGED <<result, components_mangled, attempt, first, second>>
           ELSE /\ Finish(look)
                /\ UNCHANGED <<cursor, calls>>
    /\ UNCHANGED <<debug_data, query, varname, plain_symbol, additional_spec, components,
                   offset, by_offset, loader>>

\* one invocation of find_membertype
DescendStep ==
    /\ pc = "descend"
    /\ LET step == MemberStep(typeinfo, debug_data, CurrentComponents, component_index,
                              address)
       IN  IF step.tag = "Call"
           THEN /\ typeinfo' = step.typeinfo
                /\ component_index' = step.component_index
                /\ address' = step.address
                /\ UNCHANGED <<pc, result, components_mangled, attempt, first, second,
                               varinfo, is_unique>>
           ELSE /\ Finish(MapSymbolInfo(step, varinfo, is_unique))
                /\ UNCHANGED cursor
    /\ calls' = calls + 1
    /\ UNCHANGED <<debug_data, query, varname, plain_symbol, additional_spec, components,
                   offset, by_offset, loader>>

\* the caller is through with the SymbolInfo or the error; nothing of the call
\* is left but the DebugData, which no call changes
Return ==
    /\ pc = "done"
    /\ query' = Nothing
    /\ varname' = << >>
    /\ pc' = "idle"
    /\ plain_symbol' = << >>
    /\ additional_spec' = None
    /\ components' = << >>
    /\ components_mangled' = << >>
    /\ attempt' = 1
    /\ first' = Nothing
    /\ second' = Nothing
    /\ varinfo' = Nothing
    /\ is_unique' = FALSE
    /\ typeinfo' = Nothing
    /\ component_index' = 0
    /\ address' = 0
    /\ result' = Nothing
    /\ calls' = 0
    /\ offset' = Nothing
    /\ by_offset' = Nothing
    /\ UNCHANGED <<debug_data, loader>>

\* find_symbol_by_offset, if it kept the type it found in the type map
FindSymbolByOffsetCallKeepingType(o) ==
    /\ pc = "done"
    /\ result.tag = "Ok"
    /\ result.typeinfo.kind # "TypeRef"
    /\ by_offset = Nothing
    /\ offset' = o
    /\ by_offset' = FindSymbolByOffset(result, o, debug_data)
    /\ debug_data' = IF by_offset'.tag = "Ok"
                     THEN [debug_data EXCEPT !.types = (0 :> by_offset'.typeinfo) @@ @]
                     ELSE debug_data
    /\ UNCHANGED <<query, varname, pc, plain_symbol, additional_spec,
                   components, components_mangled, attempt, first, second, cursor,
                   result, calls, loader>>

\* find_symbol_by_offset is called with the SymbolInfo that find_symbol returned
\* (a TypeRef carries no size in this model and is not asked for)
FindSymbolByOffsetCall(o) ==
    /\ pc = "done"
    /\ result.tag = "Ok"
    /\ result.typeinfo.kind # "TypeRef"
    /\ by_offset = Nothing
    /\ offset' = o
    /\ by_offset' = FindSymbolByOffset(result, o, debug_data)
    /\ UNCHANGED <<debug_data, query, varname, pc, plain_symbol, additional_spec,
                   components, components_mangled, attempt, first, second, cursor,
                   result, calls, loader>>

Next ==
    \/ (pc = "idle" /\ \E q \in Queries : FindSymbolCall(q))
    \/ LookupStep
    \/ DescendStep
    \/ Return

Spec == Init /\ [][Next]_vars

NextByOffset ==
    \/ (pc = "idle" /\ \E q \in ByOffsetQueries : FindSymbolCall(q))
    \/ LookupStep
    \/ DescendStep
    \/ (pc = "done" /\ \E o \in Offsets : FindSymbolByOffsetCall(o))
    \/ Return

SpecByOffset == InitByOffset /\ [][NextByOffset]_vars

(***************************************************************************)
(* read_debug_info_entries as a state machine: load_variables walks the    *)
(* units and their entries one at a time; the DebugData is built when the  *)
(* last unit is through.                                                   *)
(***************************************************************************)

InitLoad ==
    /\ debug_data = Nothing
    /\ Fresh
    /\ dwarf \in Dwarfs
    /\ load_pc = "start"
    /\ units_loaded = 0
    /\ entry_pos = 0
    /\ depth = 0
    /\ context = << >>
    /\ variables = << >>
    /\ unit_names = << >>
    /\ load_err = None

\* load_dwarf is called: the file is opened, mapped and parsed, its debug
\* sections are loaded and its units counted; then the reader starts
LoadDwarfCall ==
    /\ load_pc = "start"
    /\ load_err' = LoadDwarfChecks(dwarf)
    /\ load_pc' = IF load_err'.some THEN "failed" ELSE "units"
    /\ UNCHANGED <<debug_data, resolver, dwarf, units_loaded, entry_pos, depth, context,
                   variables, unit_names>>

\* the unit load_variables is in
CurrentUnit == dwarf.units[units_loaded]

\* load_variables takes the next unit: its root entry gives the unit its name
UnitStep ==
    /\ load_pc = "units"
    /\ units_loaded < Len(dwarf.units)
    /\ "abbreviations" \notin DOMAIN dwarf.units[units_loaded + 1]
    /\ units_loaded' = units_loaded + 1
    /\ LET root == dwarf.units[units_loaded + 1].root
       IN  unit_names' =
               IF root.some /\ root.val.tag \in {"compile_unit", "partial_unit"}
               THEN Append(unit_names, root.val.name)
               ELSE unit_names
    /\ depth' = 0
    /\ context' = << >>
    /\ entry_pos' = 1
    /\ load_pc' = "entries"
    /\ UNCHANGED <<debug_data, resolver, dwarf, variables, load_err>>

\* unit.abbreviations(..).unwrap() on a unit whose abbreviations cannot be read
UnitPanic ==
    /\ load_pc = "units"
    /\ units_loaded < Len(dwarf.units)
    /\ "abbreviations" \in DOMAIN dwarf.units[units_loaded + 1]
    /\ load_pc' = "panicked"
    /\ UNCHANGED <<debug_data, resolver, dwarf, units_loaded, entry_pos, depth, context,
                   variables, unit_names, load_err>>

\* the body of the loop, if a variable that fails ended the walk of its unit
EntryStepLeavingUnit ==
    /\ load_pc = "entries"
    /\ entry_pos <= Len(CurrentUnit.entries)
    /\ LET entry == CurrentUnit.entries[entry_pos]
           new_depth == depth + entry.depth_delta
           new_context == Append(Truncate(context, new_depth - 1), ContextEntry(entry))
           global == GetGlobalVariable(entry)
           scope == GetVarinfoFromContext(new_context)
       IN  /\ depth' = new_depth
           /\ context' = new_context
           /\ variables' =
                  IF entry.tag = "variable" /\ global.tag = "Global"
                  THEN PushVariable(variables, global.name,
                                    VarInfoT(global.address, global.typeref,
                                             units_loaded - 1, scope.function,
                                             scope.namespaces))
                  ELSE variables
           /\ entry_pos' = IF entry.tag = "variable" /\ global.tag = "Failed"
                           THEN Len(CurrentUnit.entries) + 1
                           ELSE entry_pos + 1
    /\ UNCHANGED <<debug_data, resolver, dwarf, load_pc, units_loaded, unit_names,
                   load_err>>

\* the body of the loop over the entries of a unit, for one entry
EntryStep ==
    /\ load_pc = "entries"
    /\ entry_pos <= Len(CurrentUnit.entries)
    /\ LET entry == CurrentUnit.entries[entry_pos]
           new_depth == depth + entry.depth_delta
           new_context == Append(Truncate(context, new_depth - 1), ContextEntry(entry))
           global == GetGlobalVariable(entry)
           scope == GetVarinfoFromContext(new_context)
       IN  /\ depth' = new_depth
           /\ context' = new_context
           /\ variables' =
                  IF entry.tag = "variable" /\ global.tag = "Global"
                  THEN PushVariable(variables, global.name,
                                    VarInfoT(global.address, global.typeref,
                                             units_loaded - 1, scope.function,
                                             scope.namespaces))
                  ELSE variables
    /\ entry_pos' = entry_pos + 1
    /\ UNCHANGED <<debug_data, resolver, dwarf, load_pc, units_loaded, unit_names,
                   load_err>>

\* next_dfs has no further entry of the unit
UnitEnd ==
    /\ load_pc = "entries"
    /\ entry_pos > Len(CurrentUnit.entries)
    /\ load_pc' = "units"
    /\ UNCHANGED <<debug_data, resolver, dwarf, units_loaded, entry_pos, depth, context,
                   variables, unit_names, load_err>>

\* load_variables has returned: the types are loaded, the names demangled and
\* the DebugData is put together; variables keeps the table as load_variables
\* returned it
BuildStep ==
    /\ load_pc = "units"
    /\ units_loaded = Len(dwarf.units)
    /\ debug_data' = ReadDebugInfoEntries(variables, unit_names, dwarf.type_entries)
    /\ load_pc' = "loaded"
    /\ UNCHANGED <<resolver, dwarf, units_loaded, entry_pos, depth, context, variables,
                   unit_names, load_err>>

NextLoad ==
    \/ LoadDwarfCall
    \/ UnitStep
    \/ UnitPanic
    \/ EntryStep
    \/ UnitEnd
    \/ BuildStep

LoadSpec == InitLoad /\ [][NextLoad]_vars

(***************************************************************************)
(* Properties.  Each is stated over the structured query and the DebugData *)
(* of the state, against what the call has computed.                       *)
(***************************************************************************)

\* select_varinfo has just returned varinfo (the descent has not begun)
JustSelected == pc = "descend" /\ calls = 0

\* the VarInfo list of the base name of the attempt that is running
Candidates == MapGet(debug_data.variables, CurrentComponents[1]).val.list

UnitFilterHolds(vi, sp) ==
    ~sp.simple_unit_name.some
        \/ sp.simple_unit_name = MakeSimpleUnitName(debug_data, vi.unit_idx)

FunctionFilterHolds(vi, sp) ==
    ~sp.function_name.some \/ sp.function_name = vi.function

\* every filter matches, an unset one always, the namespace list one of them
AllFiltersHold(vi, sp) ==
    /\ UnitFilterHolds(vi, sp)
    /\ FunctionFilterHolds(vi, sp)
    /\ (sp.namespaces = << >> \/ sp.namespaces = vi.namespaces)

\* every filter matches, and the namespace lists are equal whatever the suffix
FiltersAndNamespacesHold(vi, sp) ==
    /\ UnitFilterHolds(vi, sp)
    /\ FunctionFilterHolds(vi, sp)
    /\ sp.namespaces = vi.namespaces

Least(S) == CHOOSE i \in S : \A j \in S : i <= j

ClaimedMatches == {i \in 1..Len(Candidates) : AllFiltersHold(Candidates[i], additional_spec.val)}

ExactMatches ==
    {i \in 1..Len(Candidates) : FiltersAndNamespacesHold(Candidates[i], additional_spec.val)}

\* C1 as claimed: with a suffix, the selected candidate is the first one in table
\* order for which every filter of the suffix matches, an unset filter (no
\* Function, no CompileUnit, no Namespace group) matching any candidate; so a
\* suffix with only Function and/or CompileUnit selects a candidate that has
\* namespaces.
C1_UnsetNamespaceMatchesAny ==
    (JustSelected /\ additional_spec.some /\ ClaimedMatches # {})
        => varinfo = Candidates[Least(ClaimedMatches)]

\* C1 as amended: with a suffix, the selected candidate is the first one in table
\* order whose function and normalized unit name match the filters that are set
\* and whose namespace list equals the suffix's namespace list exactly (an empty
\* list of Namespace groups matches only a candidate without namespaces).
C1_FirstExactMatch ==
    (JustSelected /\ additional_spec.some /\ ExactMatches # {})
        => varinfo = Candidates[Least(ExactMatches)]

\* C1 witness: a suffix has selected a candidate with namespaces that is not the
\* first of several
C1_Witness ==
    /\ JustSelected
    /\ additional_spec.some
    /\ ExactMatches # {}
    /\ Least(ExactMatches) > 1
    /\ varinfo = Candidates[Least(ExactMatches)]
    /\ varinfo.namespaces # << >>

\* C2: a suffix that no candidate satisfies is no error: select_varinfo returns
\* the first candidate in table order, and the resolution goes on exactly as it
\* does for the same path without a suffix.
C2_NoMatchFallsBackToFirst ==
    /\ (JustSelected /\ additional_spec.some /\ ExactMatches = {})
           => varinfo = Candidates[1]
    /\ (/\ pc = "done"
        /\ additional_spec.some
        /\ MapGet(debug_data.variables, components[1]).some
        /\ \A vi \in {MapGet(debug_data.variables, components[1]).val.list[i] :
                        i \in 1..Len(MapGet(debug_data.variables, components[1]).val.list)} :
               ~FiltersAndNamespacesHold(vi, additional_spec.val))
           => first = FindSymbolFromComponents(components, None, debug_data)

\* C2 witness: a call with a suffix that none of several candidates satisfies has
\* returned a SymbolInfo, that of the first candidate
C2_Witness ==
    /\ pc = "done"
    /\ attempt = 1
    /\ additional_spec.some
    /\ Len(Candidates) > 1
    /\ ExactMatches = {}
    /\ result.tag = "Ok"
    /\ result.address = Candidates[1].address

\* the filters a sequence of groups stands for: the groups before the first
\* CompileUnit group count, and that group
FirstCompileUnit(groups) ==
    LET S == {i \in 1..Len(groups) : groups[i].key = CompileUnitKey}
    IN  IF S = {} THEN Len(groups) + 1 ELSE Least(S)

Values(groups) == [i \in 1..Len(groups) |-> groups[i].val]

IsNamespaceGroup(g) == g.key = NamespaceKey

ExpectedSpec(groups) ==
    LET cu == FirstCompileUnit(groups)
        scanned == SubSeq(groups, 1, cu - 1)
        F == {i \in 1..Len(scanned) : scanned[i].key = FunctionKey}
    IN  [function_name |->
             IF F = {} THEN None ELSE Some(scanned[CHOOSE i \in F : \A j \in F : j <= i].val),
         simple_unit_name |->
             IF cu > Len(groups) THEN None ELSE Some(groups[cu].val),
         namespaces |-> Values(SelectSeq(scanned, IsNamespaceGroup))]

\* C3: the base is the text before the first '{'; of the groups scanned left to
\* right, the last Function group before the first CompileUnit group sets the
\* function filter, the Namespace groups before it make the namespace list in
\* order, the first CompileUnit group sets the unit filter and no group after it
\* has an effect; an expression without '{' is its own base and has no filter.
C3_SuffixParsing ==
    pc # "idle" =>
        /\ query.groups = << >> => (plain_symbol = varname /\ additional_spec = None)
        /\ query.groups # << >> => plain_symbol = RenderPath(query.comps)
        /\ (query.groups # << >> /\ query.closed)
               => additional_spec = Some(ExpectedSpec(query.groups))

\* C3 witness: a suffix with groups after its CompileUnit group has been parsed
C3_Witness ==
    /\ pc = "done"
    /\ query.closed
    /\ FirstCompileUnit(query.groups) < Len(query.groups)
    /\ additional_spec.some
    /\ additional_spec.val.function_name = Some(n_fa)
    /\ additional_spec.val.namespaces = <<n_na, n_nb>>
    /\ additional_spec.val.simple_unit_name = Some(n_file1_c)

TokenText(tok) ==
    CASE tok.k = "name" -> tok.t
      [] tok.k = "br" -> <<"[">> \o tok.t \o <<"]">>
      [] tok.k = "us" -> <<"_">> \o tok.t \o <<"_">>

ExpectedComponents(comps) == [i \in 1..Len(comps) |-> TokenText(comps[i])]

\* C4: the components are the pieces between the dots, a piece with bracket
\* groups giving its name and then one component per group in order, a piece
\* written _N_ staying whole; there is at least one component.
C4_PathSplit ==
    pc # "idle" =>
        /\ components = ExpectedComponents(query.comps)
        /\ Len(components) >= 1

\* C4 witness: name[1][1].x has been split into four components
C4_Witness ==
    /\ pc = "done"
    /\ Len(components) = 4
    /\ components[2] = <<"[", "1", "]">>
    /\ components[3] = <<"[", "1", "]">>
    /\ components[4] = n_x

\* an index component of the query: written [N] or _N_ with N a number
IsIndexToken(tok) == tok.k \in {"br", "us"} /\ ParseUsize(tok.t).some

Spellings(tok) == IF IsIndexToken(tok) THEN {BrTok(tok.t), UsTok(tok.t)} ELSE {tok}

\* the paths that differ from comps in the notation of index components only
Respellings(comps) ==
    {c \in [1..Len(comps) -> UNION {Spellings(comps[i]) : i \in 1..Len(comps)}] :
        \A i \in 1..Len(comps) : c[i] \in Spellings(comps[i])}

\* success with the same address and type, or failure of both
SameOutcome(r1, r2) ==
    /\ r1.tag = r2.tag
    /\ r1.tag = "Ok" => (r1.address = r2.address /\ r1.typeinfo = r2.typeinfo)

RespellingsAgree ==
    \A c \in Respellings(query.comps) :
        SameOutcome(result, FindSymbol(Render([query EXCEPT !.comps = c]), debug_data))

\* the names of the members and base classes of a type and of the types
\* stored in it
RECURSIVE NamesIn(_)
NamesIn(t) ==
    LET OfEntries(entries) ==
            {entries[i].name : i \in 1..Len(entries)}
                \cup UNION {NamesIn(entries[i].type) : i \in 1..Len(entries)}
    IN  CASE t.kind \in {"Struct", "Union"} -> OfEntries(t.members)
          [] t.kind = "Class" -> OfEntries(t.members) \cup OfEntries(t.inheritance)
          [] t.kind = "Array" -> NamesIn(t.arraytype)
          [] OTHER -> {}

\* no member and no base class has a name that reads as an index
NoIndexLikeNames(dd) ==
    \A k \in DOMAIN dd.types : \A n \in NamesIn(dd.types[k]) : GetIndex(n).tag # "some"

\* C5 as claimed: for every DebugData and every expression, writing any index
\* component [N] as ._N_ or the other way round does not change the outcome of
\* resolve: success with the same address and type, or failure of both.
C5_NotationEquivalentAlways ==
    pc \in {"done", "panicked"} => RespellingsAgree

\* C5 as amended: the same, for every DebugData in which no struct, union or
\* class has a member or base class whose name itself reads as an index (_N_ or
\* [N]); such a name is matched by one notation and not by the other.
C5_NotationEquivalentWithoutIndexNames ==
    (pc \in {"done", "panicked"} /\ NoIndexLikeNames(debug_data)) => RespellingsAgree

\* C5 witness: a path with one index in each notation has been resolved to an
\* address, in a DebugData without index-like names
C5_Witness ==
    /\ pc = "done"
    /\ NoIndexLikeNames(debug_data)
    /\ result.tag = "Ok"
    /\ \E i, j \in 1..Len(query.comps) :
           /\ IsIndexToken(query.comps[i]) /\ query.comps[i].k = "br"
           /\ IsIndexToken(query.comps[j]) /\ query.comps[j].k = "us"

\* the index the query has at position pos of the path, 0 past its end
IndexValueAt(pos) ==
    IF pos <= Len(query.comps) THEN ParseUsize(query.comps[pos].t).val ELSE 0

\* the descent is at an array with a component left
AtArray ==
    /\ pc = "descend"
    /\ component_index < Len(CurrentComponents)
    /\ typeinfo.kind = "Array"

\* position in the path of the component of dimension j (counted from 1)
DimPos(j) == component_index + j

\* dimension j has an index in the path, or none because the path has ended
IndexReadable(j) ==
    DimPos(j) <= Len(query.comps) => IsIndexToken(query.comps[DimPos(j)])

IndexInRange(j) == IndexReadable(j) /\ IndexValueAt(DimPos(j)) < typeinfo.dim[j]

AllIndicesInRange == \A j \in 1..Len(typeinfo.dim) : IndexInRange(j)

RECURSIVE ExtentProduct(_, _)
ExtentProduct(dim, j) == IF j > Len(dim) THEN 1 ELSE dim[j] * ExtentProduct(dim, j + 1)

\* i1*(d2*..*dk) + i2*(d3*..*dk) + ... + ik
RECURSIVE RowMajorFrom(_, _)
RowMajorFrom(dim, j) ==
    IF j > Len(dim) THEN 0
    ELSE IndexValueAt(DimPos(j)) * ExtentProduct(dim, j + 1) + RowMajorFrom(dim, j + 1)

\* C6: at an array with extents d1..dk and stride s, the descent takes one index
\* component per dimension in declared order and goes on in the element type, at
\* the running address plus the row-major flattened index times s, with the
\* component cursor advanced by k.
C6_ArrayDescent ==
    [][(AtArray /\ AllIndicesInRange) =>
           /\ pc' = "descend"
           /\ typeinfo' = typeinfo.arraytype
           /\ component_index' = component_index + Len(typeinfo.dim)
           /\ address' = address + RowMajorFrom(typeinfo.dim, 1) * typeinfo.stride]_vars

\* C6 witness: m[1][1] of the 2 x 3 array of 2-byte elements at 200 has been
\* descended into: element (1*3 + 1) at 208
C6_Witness ==
    /\ debug_data = DebugDataA
    /\ pc = "descend"
    /\ CurrentComponents[1] = n_m
    /\ component_index = 3
    /\ typeinfo = Uint16
    /\ address = 208

IsError(r, kind) == r.tag = "Err" /\ r.err.kind = kind

\* the outcome the step ends the running attempt with
EndedWith == IF attempt = 1 THEN first' ELSE second'

HasMangledForm == components[1] \in DOMAIN debug_data.demangled_names

\* dimension j is the first whose index is not below its extent
FirstOutOfRange(j) ==
    /\ \A i \in 1..(j - 1) : IndexInRange(i)
    /\ IndexReadable(j)
    /\ IndexValueAt(DimPos(j)) >= typeinfo.dim[j]

SameButName(r1, r2) ==
    /\ r1.tag = r2.tag
    /\ r1.tag = "Ok" => [r1 EXCEPT !.name = << >>] = [r2 EXCEPT !.name = << >>]
    /\ r1.tag = "Err" =>
           /\ r1.err.kind = r2.err.kind
           /\ r1.err.kind = "Bounds" =>
                  (r1.err.index = r2.err.index /\ r1.err.extent = r2.err.extent)

RECURSIVE Zeros(_)
Zeros(n) == IF n = 0 THEN << >> ELSE <<BrTok(d0)>> \o Zeros(n - 1)

ZeroComponents(n) == ExpectedComponents(Zeros(n))

\* the indices the path supplies to the array the descent is at
Supplied == Len(CurrentComponents) - component_index

\* C8: a path that supplies at least one index and fewer than the array has
\* dimensions, and then ends, is resolved as if [0] were written for each missing
\* dimension: the descent from the array has the same outcome, and resolve gives
\* the same result as for the expression with the [0]s appended.
C8_MissingIndicesAreZero ==
    /\ (AtArray /\ Supplied < Len(typeinfo.dim)) =>
           SameButName(
               FindMembertype(typeinfo, debug_data, CurrentComponents, component_index,
                              address),
               FindMembertype(typeinfo, debug_data,
                              CurrentComponents
                                  \o ZeroComponents(Len(typeinfo.dim) - Supplied),
                              component_index, address))
    /\ (pc = "done" /\ component_index > Len(CurrentComponents)) =>
           SameButName(
               result,
               FindSymbol(
                   Render([query EXCEPT !.comps =
                               @ \o Zeros(component_index - Len(CurrentComponents))]),
                   debug_data))

\* C8 witness: m[1] of the 2 x 3 array at 200 has been resolved to the address
\* of m[1][0]
C8_Witness ==
    /\ debug_data = DebugDataA
    /\ pc = "done"
    /\ components[1] = n_m
    /\ component_index > Len(CurrentComponents)
    /\ result.tag = "Ok"
    /\ result.address = 206

\* the descent is entered with every component consumed
Exhausted == pc = "descend" /\ component_index >= Len(CurrentComponents)

\* the variable the expression names is in the table, with its type
DirectHit ==
    /\ MapGet(debug_data.variables, components[1]).some
    /\ varinfo # Nothing
    /\ varinfo.typeref \in DOMAIN debug_data.types

\* C9: when all components have been consumed, resolve succeeds with the running
\* address and the current type, whatever its kind; a variable named alone (an
\* array or a struct too) is returned with its own type at its own address.
C9_ExhaustionReturnsCurrentNode ==
    /\ [](( /\ pc = "done"
            /\ Len(query.comps) = 1
            /\ attempt = 1
            /\ DirectHit) =>
               /\ result.tag = "Ok"
               /\ result.address = varinfo.address
               /\ result.typeinfo = debug_data.types[varinfo.typeref])
    /\ [][Exhausted =>
              /\ pc' = "done"
              /\ result'.tag = "Ok"
              /\ result'.address = address
              /\ result'.typeinfo = typeinfo]_vars

\* C9 witness: the array variable arr, named alone, has been resolved to the
\* whole array at its base address
C9_Witness ==
    /\ pc = "done"
    /\ query.comps = <<NameTok(n_arr)>>
    /\ result.tag = "Ok"
    /\ result.typeinfo.kind = "Array"
    /\ result.address = 100

\* the descent is at a leaf with a component left
AtLeaf ==
    /\ pc = "descend"
    /\ component_index < Len(CurrentComponents)
    /\ typeinfo.kind \notin {"Struct", "Union", "Class", "Array"}

AtRecord ==
    /\ pc = "descend"
    /\ component_index < Len(CurrentComponents)
    /\ typeinfo.kind \in {"Struct", "Union"}

\* the component the descent is about to consume
NextComponent == CurrentComponents[component_index + 1]

\* the positions in a member table of the entries with a name
Named(entries, name) == {i \in 1..Len(entries) : entries[i].name = name}

\* the type a stored member type stands for
Referenced(t) == IF t.kind = "TypeRef" THEN debug_data.types[t.key] ELSE t

\* what find_symbol makes of an error that ends the running attempt
ErrorHandedOn ==
    /\ (attempt = 1 /\ ~HasMangledForm) => (pc' = "done" /\ result' = first')
    /\ (attempt = 1 /\ HasMangledForm)
           => (pc' = "lookup" /\ attempt' = 2 /\ result' = Nothing)
    /\ attempt = 2 => (pc' = "done" /\ result' = first /\ result'.tag = "Err")

AtBaseMarker ==
    /\ pc = "descend"
    /\ typeinfo.kind = "Class"
    /\ component_index + 1 < Len(CurrentComponents)
    /\ Named(typeinfo.members, NextComponent) = {}
    /\ Named(typeinfo.inheritance, NextComponent) # {}
    /\ CurrentComponents[component_index + 2] = <<"_">>

BaseEntry(class, name) == class.inheritance[Least(Named(class.inheritance, name))]

\* the expression names a class variable, then a base class of it, then '_'
MarkerAtTop ==
    /\ attempt = 1
    /\ DirectHit
    /\ debug_data.types[varinfo.typeref].kind = "Class"
    /\ Len(components) >= 3
    /\ Named(debug_data.types[varinfo.typeref].members, components[2]) = {}
    /\ Named(debug_data.types[varinfo.typeref].inheritance, components[2]) # {}
    /\ components[3] = <<"_">>

\* resolve has returned the base class instance named by components[2]
ResultIsBaseInstance ==
    LET b == BaseEntry(debug_data.types[varinfo.typeref], components[2])
    IN  /\ result.tag = "Ok"
        /\ result.address = varinfo.address + b.offset
        /\ result.typeinfo = b.type

\* C12 as claimed: a base class name followed by '_' selects the base class
\* instance itself (base type at running address + base offset) and ends the
\* descent: what follows the '_' is not resolved in the base type.
C12_MarkerEndsDescent ==
    (pc = "done" /\ MarkerAtTop) => ResultIsBaseInstance

\* C12 as amended: at a class, a component that names a base class (and no
\* member) followed by the token '_' consumes both, and the descent goes on with
\* the components after the '_' in the base class type as the inheritance table
\* stores it, at running address + base offset; if the '_' is the last
\* component, the result is the base class instance itself.
C12_MarkerIsSkipped ==
    /\ []((pc = "done" /\ MarkerAtTop /\ Len(components) = 3) => ResultIsBaseInstance)
    /\ [][AtBaseMarker =>
              /\ pc' = "descend"
              /\ typeinfo' = BaseEntry(typeinfo, NextComponent).type
              /\ component_index' = component_index + 2
              /\ address' = address + BaseEntry(typeinfo, NextComponent).offset]_vars

\* C12 witness: c.B._.x has been resolved to the member x of the base class B
C12_Witness ==
    /\ pc = "done"
    /\ components = <<n_c, n_B, n_us, n_x>>
    /\ result.tag = "Ok"
    /\ result.address = 400
    /\ result.typeinfo = Uint16

\* component 0 of the expression is not a key of the variable table
BaseAbsent == Named(debug_data.variables, components[1]) = {}

\* C13: if component 0 is not a key of the variable table, and either is not a
\* key of the demangled-name index or the retry under the mangled name fails
\* too, resolve returns the error 'Symbol <component 0> does not exist'.
C13_SymbolNotFound ==
    (pc = "done" /\ BaseAbsent /\ (~HasMangledForm \/ second.tag = "Err")) =>
        /\ IsError(result, "NotExist")
        /\ result.err.symbol = components[1]

\* C13 witness: bar[2], found only under its mangled name and out of bounds
\* there, has been answered with 'Symbol bar does not exist'
C13_Witness ==
    /\ pc = "done"
    /\ components[1] = n_bar
    /\ IsError(second, "Bounds")
    /\ IsError(result, "NotExist")
    /\ result.err.symbol = n_bar

\* C14: if component 0 is not a key of the variable table and is a key of the
\* demangled-name index, resolve retries the whole resolution with the mangled
\* name in the place of component 0, the same filters and the same remaining
\* components; on success the display name is the mangled name followed by the
\* rest of the base path (without the suffix); a direct hit is reported under
\* the base path itself.
C14_DemangledFallback ==
    /\ (pc = "done" /\ BaseAbsent /\ HasMangledForm) =>
           LET mangled == debug_data.demangled_names[components[1]]
           IN  /\ attempt = 2
               /\ components_mangled = <<mangled>> \o Tail(components)
               /\ second = FindSymbolFromComponents(components_mangled, additional_spec,
                                                    debug_data)
               /\ second.tag = "Ok" =>
                      /\ SameButName(result, second)
                      /\ result.name = mangled \o RenderTail(query.comps, 2)
    /\ (pc = "done" /\ attempt = 1 /\ result.tag = "Ok") =>
           result.name = RenderPath(query.comps)

\* C15: every SymbolInfo resolve returns carries the unit index, the function
\* name and the namespace list of the VarInfo that select_varinfo chose, and its
\* uniqueness flag is true exactly if the base name has one VarInfo.
C15_ResultContext ==
    (pc = "done" /\ result.tag = "Ok") =>
        LET selected == SelectVarinfo(Candidates, additional_spec, debug_data)
        IN  /\ result.unit_idx = selected.unit_idx
            /\ result.function_name = selected.function
            /\ result.namespaces = selected.namespaces
            /\ result.is_unique = (Len(Candidates) = 1)

\* the offset is above a size (offsets are far below 2^16)
Exceeds(o, size) == size.hi = 0 /\ o > size.lo

\* the components of the base symbol's type at the offset asked for, in the
\* order of the enumeration
ComponentsAtOffset ==
    LET items == TypeInfoIter(debug_data.types, result.typeinfo)
    IN  SelectSeq(items, LAMBDA item : item.offset = offset)

\* C16: find_symbol_by_offset fails with the out-of-bounds error if the offset
\* is negative or above the size of the base symbol's type; otherwise it
\* returns the first component of the depth-first enumeration whose cumulative
\* offset is the offset, named base name + suffix, at base address + offset,
\* with unit, function, namespaces and uniqueness of the base; if there is no
\* such component it fails with the 'no symbol component at offset' error.
C16_ResolveByOffset ==
    by_offset # Nothing =>
        IF offset < 0 \/ Exceeds(offset, GetSize(result.typeinfo))
        THEN IsError(by_offset, "OffsetBounds")
        ELSE /\ ~IsError(by_offset, "OffsetBounds")
             /\ IF ComponentsAtOffset = << >>
                THEN IsError(by_offset, "NoComponent")
                ELSE /\ by_offset.tag = "Ok"
                     /\ by_offset.name = result.name \o ComponentsAtOffset[1].name
                     /\ by_offset.address = result.address + offset
                     /\ by_offset.typeinfo = ComponentsAtOffset[1].typeinfo
                     /\ by_offset.unit_idx = result.unit_idx
                     /\ by_offset.function_name = result.function_name
                     /\ by_offset.namespaces = result.namespaces
                     /\ by_offset.is_unique = result.is_unique

Interpretable(c) ==
    /\ Len(c) >= 3
    /\ \/ (Head(c) = "_" /\ c[Len(c)] = "_")
       \/ (Head(c) = "[" /\ c[Len(c)] = "]")
    /\ ParseUsize(SubSeq(c, 2, Len(c) - 1)).some

\* dimension j is the first whose component is there and is not an index, the
\* indices before it being in range
FirstUninterpretable(j) ==
    /\ DimPos(j) <= Len(CurrentComponents)
    /\ ~Interpretable(CurrentComponents[DimPos(j)])
    /\ \A i \in 1..(j - 1) :
           /\ Interpretable(CurrentComponents[DimPos(i)])
           /\ GetIndex(CurrentComponents[DimPos(i)]).val < typeinfo.dim[i]

\* C18: resolve never panics: whatever the expression and the DebugData, it
\* returns a SymbolInfo or an error value, and a component that cannot be
\* read as an array index where the descent needs one ends the attempt with
\* the 'could not interpret as an array index' error.
C18_FailuresAreValues ==
    /\ [](pc # "panicked")
    /\ [](pc = "done" => result.tag \in {"Ok", "Err"})
    /\ [][\A j \in 1..Len(IF AtArray THEN typeinfo.dim ELSE << >>) :
             (AtArray /\ FirstUninterpretable(j)) =>
                 IsError(EndedWith, "UnparsableIndex")]_vars

\* the texts and numbers an error message is made of, its fixed words left out
Texts(e) ==
    CASE e.kind = "NoMember" -> {e.member, e.path}
      [] e.kind = "Remaining" -> {e.rest, e.full}
      [] e.kind = "Bounds" -> {NatText(e.index), e.full, NatText(e.extent)}
      [] e.kind = "UnparsableIndex" -> {e.component}
      [] OTHER -> {}

IsSubstring(t, f) ==
    \E i \in 0..(Len(f) - Len(t)) : SubSeq(f, i + 1, i + Len(t)) = t

Mentions(e, t) == \E f \in Texts(e) : IsSubstring(t, f)

DescentErrors == {"NoMember", "Bounds", "Remaining", "UnparsableIndex"}

\* this step ends the first attempt with one of the four errors of the descent
\* (it is the error resolve returns unless a retry succeeds)
FirstAttemptFails ==
    /\ attempt = 1
    /\ first = Nothing
    /\ first'.tag = "Err"
    /\ first'.err.kind \in DescentErrors

BadIndex(c, extent) == ~Interpretable(c) \/ GetIndex(c).val >= extent

\* the position (from 1) of the component the step fails at
OffendingPos ==
    IF pc = "lookup" THEN 2
    ELSE IF typeinfo.kind = "Array"
    THEN DimPos(CHOOSE j \in 1..Len(typeinfo.dim) :
                    /\ DimPos(j) <= Len(components)
                    /\ BadIndex(components[DimPos(j)], typeinfo.dim[j])
                    /\ \A i \in 1..(j - 1) :
                           ~BadIndex(components[DimPos(i)], typeinfo.dim[i]))
    ELSE component_index + 1

\* C19 as claimed: every error of the four kinds that resolve returns contains
\* the offending component and the whole path of the expression.
C19_ErrorsQuoteWholeExpression ==
    [][(FirstAttemptFails /\ ~HasMangledForm) =>
           /\ result' = first'
           /\ Mentions(result'.err, components[OffendingPos])
           /\ Mentions(result'.err, JoinDot(components))]_vars

\* C19 as amended: the error resolve returns is the first attempt's; it contains
\* the offending component; the bounds error and the 'remaining portion' error
\* contain all components of the path joined with '.', the 'no member' error
\* contains the member and the path before it only, and the 'could not
\* interpret' error contains the component and nothing else.
C19_ErrorContents ==
    /\ [](pc = "done" /\ result.tag = "Err" => result = first)
    /\ [][FirstAttemptFails =>
             LET e == first'.err
                 at == OffendingPos
             IN  /\ Mentions(e, components[at])
                 /\ e.kind \in {"Bounds", "Remaining"} =>
                        Mentions(e, JoinDot(components))
                 /\ e.kind = "Remaining" =>
                        e.rest = JoinDot(SubSeq(components, at, Len(components)))
                 /\ e.kind = "NoMember" =>
                        Texts(e) = {components[at], JoinDot(SubSeq(components, 1, at - 1))}
                 /\ e.kind = "UnparsableIndex" => Texts(e) = {components[at]}]_vars

\* C19 witness: s.in.zz has failed: the error names zz and the path s.in before
\* it, which is not the whole path
C19_Witness ==
    /\ pc = "done"
    /\ IsError(result, "NoMember")
    /\ Len(components) = 3
    /\ result.err.path = JoinDot(SubSeq(components, 1, 2))
    /\ ~Mentions(result.err, JoinDot(components))

\* the VarInfos of a variable table, each with its name
VarInfosOf(table) ==
    UNION {{<<table[i].name, table[i].list[j]>> : j \in 1..Len(table[i].list)} :
              i \in 1..Len(table)}

LoadMustFail == dwarf.container # "ok" \/ Len(dwarf.units) = 0

\* nothing of the extraction has happened
ExtractionNotStarted ==
    /\ units_loaded = 0
    /\ variables = << >>
    /\ unit_names = << >>
    /\ debug_data = Nothing

\* C21: when the file cannot be opened, mapped or parsed, has no .debug_info
\* section or no unit that parses, load_dwarf returns an error that names the
\* path of the binary and no DebugData, and the extraction never starts; a
\* DebugData is returned only when none of these is the case.
C21_LoadPreconditionsFatal ==
    /\ (LoadMustFail /\ load_pc # "start") =>
           /\ load_pc = "failed"
           /\ load_err.some
           /\ dwarf.filename \in load_err.val.texts
    /\ (load_pc \in {"start", "failed"}) => ExtractionNotStarted
    /\ load_pc = "failed" => LoadMustFail
    /\ load_pc = "loaded" => (~LoadMustFail /\ ~load_err.some)

\* the walk is at an entry and this step processes it
AtEntry == load_pc = "entries" /\ entry_pos <= Len(CurrentUnit.entries)

ThisEntry == CurrentUnit.entries[entry_pos]

\* the number of VarInfos of a variable table
RECURSIVE TotalLen(_)
TotalLen(table) ==
    IF Len(table) = 0 THEN 0 ELSE Len(Head(table).list) + TotalLen(Tail(table))

\* the step has put one VarInfo with this name, typeref and address at the end
\* of the name's list, and nothing else into the table
RecordedAs(name, typeref, addr) ==
    /\ TotalLen(variables') = TotalLen(variables) + 1
    /\ \E i \in 1..Len(variables') :
           LET list == variables'[i].list
           IN  /\ variables'[i].name = name
               /\ list[Len(list)].typeref = typeref
               /\ list[Len(list)].address = addr

\* the step records the variable if it has both a name and a typeref, and
\* nothing if not
RecordsIfBoth(name, typeref) ==
    IF name.some /\ typeref.some
    THEN RecordedAs(name.val, typeref.val, ThisEntry.location.val)
    ELSE variables' = variables

\* C22: for a variable entry with an address, (a) with a specification link
\* name and typeref both come from its target, and a target without one of
\* them is an error whatever the entry has itself; (b) else with an abstract
\* origin each of the two comes from the entry if it has it and from the
\* target if not; (c) else both come from the entry.
C22_AttributeIndirection ==
    [][(AtEntry /\ ThisEntry.tag = "variable" /\ ThisEntry.location.some) =>
           LET e == ThisEntry
           IN  IF e.specification.some
               THEN RecordsIfBoth(e.specification.val.name, e.specification.val.typeref)
               ELSE IF e.abstract_origin.some
               THEN RecordsIfBoth(
                        IF e.name.some THEN e.name ELSE e.abstract_origin.val.name,
                        IF e.typeref.some THEN e.typeref
                        ELSE e.abstract_origin.val.typeref)
               ELSE RecordsIfBoth(e.name, e.typeref)]_vars

\* the entry the walk has just processed
LastEntry == CurrentUnit.entries[entry_pos - 1]

\* C22 witness: a definition with a name and a type of its own whose
\* declaration has no name has been passed, and nothing was recorded at its
\* address
C22_Witness ==
    /\ load_pc = "entries"
    /\ entry_pos > 1
    /\ LastEntry.location.some
    /\ LastEntry.specification.some
    /\ ~LastEntry.specification.val.name.some
    /\ LastEntry.name.some /\ LastEntry.typeref.some
    /\ \A v \in VarInfosOf(variables) : v[2].address # LastEntry.location.val

\* a variable entry that is not recorded: it has no location, or its name or
\* its typeref cannot be resolved
BadEntry(entry) == entry.tag = "variable" /\ GetGlobalVariable(entry).tag # "Global"

\* the entries without the bad ones; the depth delta of a removed entry goes to
\* the entry after it
RECURSIVE WithoutBad(_, _, _)
WithoutBad(entries, i, carry) ==
    IF i > Len(entries) THEN << >>
    ELSE IF BadEntry(entries[i])
    THEN WithoutBad(entries, i + 1, carry + entries[i].depth_delta)
    ELSE <<[entries[i] EXCEPT !.depth_delta = @ + carry]>>
             \o WithoutBad(entries, i + 1, 0)

CleanedUnits ==
    [n \in 1..Len(dwarf.units) |->
        [dwarf.units[n] EXCEPT !.entries = WithoutBad(@, 1, 0)]]

\* the variable entries of all units that have address, name and typeref
GoodEntries ==
    UNION {{<<n, i>> : i \in {k \in 1..Len(dwarf.units[n].entries) :
                                 /\ dwarf.units[n].entries[k].tag = "variable"
                                 /\ ~BadEntry(dwarf.units[n].entries[k])}} :
              n \in 1..Len(dwarf.units)}

\* load_variables has walked every unit
WalkComplete ==
    \/ load_pc = "loaded"
    \/ load_pc = "units" /\ units_loaded = Len(dwarf.units)

\* C23: a variable entry without a location, or whose name or typeref cannot
\* be resolved, adds nothing to the table and the walk goes on with the next
\* entry; when the walk is through, every variable entry of every unit that
\* has address, name and typeref is in the table, and the table is the one
\* load_variables builds from the units without the bad entries.
C23_PerEntryIsolation ==
    /\ [][(AtEntry /\ BadEntry(ThisEntry)) =>
             /\ variables' = variables
             /\ load_pc' = "entries"
             /\ entry_pos' = entry_pos + 1
             /\ load_err' = load_err]_vars
    /\ [](WalkComplete =>
             /\ TotalLen(variables) = Cardinality(GoodEntries)
             /\ \A g \in GoodEntries :
                    \E v \in VarInfosOf(variables) :
                        /\ v[2].address = dwarf.units[g[1]].entries[g[2]].location.val
                        /\ v[2].unit_idx = g[1] - 1
             /\ variables = LoadVariables(CleanedUnits, 1, << >>))

\* C23 witness: two units are walked; the first has a variable that fails and
\* one without a location, each before a variable that is recorded, and a
\* variable of the second unit is recorded as well
C23_Witness ==
    /\ WalkComplete
    /\ Len(dwarf.units) = 2
    /\ \E i, j, k \in 1..Len(dwarf.units[1].entries) :
           /\ i < k /\ j < k
           /\ dwarf.units[1].entries[i].tag = "variable"
           /\ GetGlobalVariable(dwarf.units[1].entries[i]).tag = "Failed"
           /\ dwarf.units[1].entries[j].tag = "variable"
           /\ GetGlobalVariable(dwarf.units[1].entries[j]).tag = "Local"
           /\ <<1, k>> \in GoodEntries
    /\ \E v \in VarInfosOf(variables) : v[2].unit_idx = 1

\* the depth of entry k of a unit: the sum of the depth deltas up to it
RECURSIVE DepthAt(_, _)
DepthAt(entries, k) ==
    IF k = 0 THEN 0 ELSE DepthAt(entries, k - 1) + entries[k].depth_delta

\* the ancestors of entry k below the root of the unit, outermost first: at
\* each level above the entry the last entry before it, nothing between them
\* being as high
Ancestors(entries, k) ==
    [l \in 1..(DepthAt(entries, k) - 1) |->
        entries[CHOOSE j \in 1..(k - 1) :
                    /\ DepthAt(entries, j) = l
                    /\ \A i \in (j + 1)..(k - 1) : DepthAt(entries, i) > l]]

\* the VarInfo this step has recorded: the last of its name's list
JustRecorded ==
    LET name == GetGlobalVariable(ThisEntry).name
        list == (CHOOSE e \in {variables'[i] : i \in 1..Len(variables')} :
                     e.name = name).list
    IN  list[Len(list)]

\* this step records a variable
RecordingStep == AtEntry /\ ThisEntry.tag = "variable" /\ ~BadEntry(ThisEntry)

\* the name of the innermost subprogram among the ancestors, if there is one
EnclosingFunction(ancestors) ==
    LET subprograms == SelectSeq(ancestors, LAMBDA a : a.tag = "subprogram")
    IN  IF Len(subprograms) = 0 THEN None ELSE subprograms[Len(subprograms)].name

\* the names of the namespaces among the ancestors, outermost first
EnclosingNamespaces(ancestors) ==
    LET spaces == SelectSeq(ancestors, LAMBDA a : a.tag = "namespace" /\ a.name.some)
    IN  [i \in 1..Len(spaces) |-> spaces[i].name.val]

\* C24: a recorded VarInfo carries the name of the innermost enclosing
\* subprogram (none without one) and the names of all enclosing namespaces,
\* outermost first, and is appended to the list of its name.
C24_RecordedContext ==
    [][RecordingStep =>
           LET ancestors == Ancestors(CurrentUnit.entries, entry_pos)
               global == GetGlobalVariable(ThisEntry)
           IN  /\ RecordedAs(global.name, global.typeref, global.address)
               /\ JustRecorded.function = EnclosingFunction(ancestors)
               /\ JustRecorded.namespaces = EnclosingNamespaces(ancestors)]_vars

\* C24 (amended): a recorded VarInfo carries the name of the innermost
\* enclosing subprogram (none without one) and the names of all enclosing
\* namespaces, innermost first, and is appended to the list of its name.
C24_RecordedContextInnerFirst ==
    [][RecordingStep =>
           LET ancestors == Ancestors(CurrentUnit.entries, entry_pos)
               global == GetGlobalVariable(ThisEntry)
               spaces == EnclosingNamespaces(ancestors)
           IN  /\ RecordedAs(global.name, global.typeref, global.address)
               /\ JustRecorded.function = EnclosingFunction(ancestors)
               /\ Len(JustRecorded.namespaces) = Len(spaces)
               /\ \A i \in 1..Len(spaces) :
                      JustRecorded.namespaces[i] = spaces[Len(spaces) + 1 - i]]_vars

\* the table holds a variable of two nested namespaces, a variable of a
\* function, and a name with two variables
C24_Witness ==
    /\ \E i \in 1..Len(variables) : \E j \in 1..Len(variables[i].list) :
           /\ Len(variables[i].list[j].namespaces) = 2
           /\ variables[i].list[j].namespaces[1] # variables[i].list[j].namespaces[2]
    /\ \E i \in 1..Len(variables) : \E j \in 1..Len(variables[i].list) :
           variables[i].list[j].function.some
    /\ \E i \in 1..Len(variables) : Len(variables[i].list) >= 2

\* the walk of a unit has processed at least one entry below the root
Processed == load_pc = "entries" /\ entry_pos > 1

\* C25: after each entry below the root of a unit is processed the running
\* depth is at least 1, the context stack is as long as the depth, it holds
\* the tags of the entry's ancestors below the root, outermost first, and then
\* the entry itself, and only namespace and subprogram elements carry a name.
C25_ContextStack ==
    Processed =>
        LET entries == CurrentUnit.entries
            k == entry_pos - 1
            ancestors == Ancestors(entries, k)
        IN  /\ depth >= 1
            /\ depth = DepthAt(entries, k)
            /\ Len(context) = depth
            /\ \A l \in 1..(depth - 1) : context[l].tag = ancestors[l].tag
            /\ context[depth].tag = entries[k].tag
            /\ \A l \in 1..Len(context) :
                   context[l].name.some => context[l].tag \in {"namespace", "subprogram"}

\* an entry two or more levels above the one before it has been processed at
\* the top level of its unit: it is alone on the stack
C25_Witness ==
    /\ Processed
    /\ entry_pos > 3
    /\ CurrentUnit.entries[entry_pos - 1].depth_delta <= -2
    /\ Len(context) = 1
    /\ context[1].tag = "variable"

\* the name of a unit as its root entry gives it: none when the root cannot be
\* read or has no name
NameOfUnit(unit) == IF unit.root.some THEN unit.root.val.name ELSE None

\* the extraction has run over all units of the file
Extracted == load_pc = "loaded"

\* C26: after extraction the unit-name list has one entry per unit walked,
\* entry i is the name of unit i whatever the tag of its root and whether or
\* not the root could be read, and so the unit_idx of every VarInfo points at
\* the name of the variable's own unit.
C26_UnitNamesAligned ==
    Extracted =>
        /\ Len(unit_names) = Len(dwarf.units)
        /\ \A i \in 1..Len(dwarf.units) : unit_names[i] = NameOfUnit(dwarf.units[i])
        /\ \A i \in 1..Len(variables) : \A j \in 1..Len(variables[i].list) :
               LET unit_idx == variables[i].list[j].unit_idx
               IN  /\ unit_idx + 1 \in 1..Len(unit_names)
                   /\ unit_names[unit_idx + 1] = NameOfUnit(dwarf.units[unit_idx + 1])

\* an invocation of find_membertype is under way
Descending == pc = "descend"

\* the invocation ends with a recursive call
Recurses == Descending /\ pc' = "descend"

\* C27: the descent takes a bounded number of steps whatever the type map,
\* types that refer to themselves or to each other included: an invocation on
\* a Struct, Union or Class that goes on has consumed one component (two with
\* the _ after a base class), one on an Array has moved on by the number of
\* its dimensions into its own element type in one step whatever its extents,
\* no other type goes on, and so the invocations of one descent never
\* outnumber the components of the expression.
C27_BoundedDescent ==
    [][Descending =>
           /\ calls' <= Len(CurrentComponents)
           /\ Recurses =>
                  /\ typeinfo.kind \in {"Struct", "Union", "Class", "Array"}
                  /\ component_index < Len(CurrentComponents)
                  /\ typeinfo.kind \in {"Struct", "Union", "Class"} =>
                         component_index' \in {component_index + 1, component_index + 2}
                  /\ typeinfo.kind = "Array" =>
                         /\ component_index' = component_index + Len(typeinfo.dim)
                         /\ component_index' > component_index
                         /\ typeinfo' = typeinfo.arraytype]_vars

\* the descent is back at the struct that refers to itself after four steps
\* and has a component left
C27_Witness ==
    /\ Descending
    /\ calls >= 4
    /\ typeinfo = debug_data.types[8]
    /\ typeinfo.members[2].type = TypeRefT(8)
    /\ component_index < Len(CurrentComponents)

====
